---- MODULE Spec2Model ----
(***************************************************************************)
(* Model of notecalc-lib/src/lib.rs (NoteCalcApp): the document, the       *)
(* line-reference chooser and the evaluation pass of render().             *)
(*                                                                         *)
(* A line of the document is a sequence of one-character strings plus its  *)
(* LineData (line_id).  Rows and columns are 0-based as in the source;     *)
(* TLA+ sequences are 1-based, so row r of the document is lines[r + 1].   *)
(*                                                                         *)
(* The operators that stand for calc.rs, token_parser.rs, shunting_yard.rs, *)
(* consts.rs and editor/ (Tokenize, evaluate_tokens, add_op, ...) follow   *)
(* the specification text of these components.                             *)
(***************************************************************************)
EXTENDS Integers, Sequences, FiniteSets, TLC

\* ------------------------------------------------------------------------
\* Bounds of the model
\* ------------------------------------------------------------------------
\* largest number of lines the typed document grows to
MaxLines == 2
\* largest line_id_generator value from which alt_key_released still assigns
MaxLineId == 3
\* longest line alt_key_released still extends with a reference
MaxLineLen == 8
\* largest row the line-reference chooser is moved to
MaxChooserRow == 5
\* the single characters typed or deleted by key in one run
MaxEdits == 1

\* ------------------------------------------------------------------------
\* Program constants
\* ------------------------------------------------------------------------
MAX_LINE_COUNT == 64
SUM_VARIABLE_INDEX == 0

None == [kind |-> "None"]

\* ------------------------------------------------------------------------
\* Characters
\* ------------------------------------------------------------------------
Digit == {"0", "1", "2", "3", "4", "5", "6", "7", "8", "9"}
Letter == {"c", "m", "s", "u", "x", "y"}

DigitVal(ch) ==
  CASE ch = "0" -> 0 [] ch = "1" -> 1 [] ch = "2" -> 2 [] ch = "3" -> 3
    [] ch = "4" -> 4 [] ch = "5" -> 5 [] ch = "6" -> 6 [] ch = "7" -> 7
    [] ch = "8" -> 8 [] ch = "9" -> 9

DigitChar(d) ==
  CASE d = 0 -> "0" [] d = 1 -> "1" [] d = 2 -> "2" [] d = 3 -> "3"
    [] d = 4 -> "4" [] d = 5 -> "5" [] d = 6 -> "6" [] d = 7 -> "7"
    [] d = 8 -> "8" [] d = 9 -> "9"

is_ascii_whitespace(ch) == ch = " "

starts_with(line, prefix) ==
  /\ Len(line) >= Len(prefix)
  /\ SubSeq(line, 1, Len(prefix)) = prefix

\* ------------------------------------------------------------------------
\* CalcResult: Number(value, unit); the unit is the exponent of the metre,
\* 0 standing for "no unit".
\* ------------------------------------------------------------------------
Number(v, u) == [kind |-> "Number", val |-> v, unit |-> u]

\* CalcResult::zero()
Zero == Number(0, 0)

\* Matrix{row_count, col_count, cells}: the cells are Numbers, row by row
Matrix(row_count, col_count, cells) ==
  [kind |-> "Matrix", row_count |-> row_count, col_count |-> col_count,
   cells |-> cells]

add_numbers(lhs, rhs) ==
  IF lhs.unit = rhs.unit THEN Number(lhs.val + rhs.val, lhs.unit) ELSE None

mul_numbers(lhs, rhs) == Number(lhs.val * rhs.val, lhs.unit + rhs.unit)

\* the matrix of the cells, None when a cell has no value
matrix_of(row_count, col_count, cells) ==
  IF \E k \in 1..Len(cells) : cells[k] = None THEN None
  ELSE Matrix(row_count, col_count, cells)

\* calc::add_op: equal exponent vectors are required, the left unit is kept;
\* matrices of the same shape are added cell by cell
add_op(lhs, rhs) ==
  IF lhs.kind = "Number" /\ rhs.kind = "Number"
  THEN add_numbers(lhs, rhs)
  ELSE IF /\ lhs.kind = "Matrix" /\ rhs.kind = "Matrix"
          /\ lhs.row_count = rhs.row_count /\ lhs.col_count = rhs.col_count
  THEN matrix_of(lhs.row_count, lhs.col_count,
                 [k \in 1..Len(lhs.cells) |->
                    add_numbers(lhs.cells[k], rhs.cells[k])])
  ELSE None

\* the cell (i, j) of the matrix product: the sum over k of a[i,k] * b[k,j]
RECURSIVE product_cell(_, _, _, _, _)
product_cell(a, b, i, j, k) ==
  LET p == mul_numbers(a.cells[(i - 1) * a.col_count + k],
                       b.cells[(k - 1) * b.col_count + j])
  IN IF k = 1 THEN p
     ELSE LET before == product_cell(a, b, i, j, k - 1) IN
          IF before = None THEN None ELSE add_numbers(before, p)

\* multiplication combines the exponent vectors additively; a matrix and a
\* scalar are multiplied cell by cell, two matrices need cols(left) =
\* rows(right)
mul_op(lhs, rhs) ==
  IF lhs.kind = "Number" /\ rhs.kind = "Number"
  THEN mul_numbers(lhs, rhs)
  ELSE IF lhs.kind = "Matrix" /\ rhs.kind = "Number"
  THEN Matrix(lhs.row_count, lhs.col_count,
              [k \in 1..Len(lhs.cells) |-> mul_numbers(lhs.cells[k], rhs)])
  ELSE IF lhs.kind = "Number" /\ rhs.kind = "Matrix"
  THEN Matrix(rhs.row_count, rhs.col_count,
              [k \in 1..Len(rhs.cells) |-> mul_numbers(lhs, rhs.cells[k])])
  ELSE IF /\ lhs.kind = "Matrix" /\ rhs.kind = "Matrix"
          /\ lhs.col_count = rhs.row_count
  THEN matrix_of(lhs.row_count, rhs.col_count,
                 [n \in 1..(lhs.row_count * rhs.col_count) |->
                    product_cell(lhs, rhs, ((n - 1) \div rhs.col_count) + 1,
                                 ((n - 1) % rhs.col_count) + 1,
                                 lhs.col_count)])
  ELSE None

\* Option::unwrap_or
unwrap_or(opt, default) == IF opt = None THEN default ELSE opt

\* ------------------------------------------------------------------------
\* consts::STATIC_LINE_IDS[id]: the text of a reference to the line id
\* ------------------------------------------------------------------------
RECURSIVE DecDigits(_)
DecDigits(n) ==
  IF n < 10 THEN <<DigitChar(n)>>
  ELSE DecDigits(n \div 10) \o <<DigitChar(n % 10)>>

STATIC_LINE_IDS(id) == <<"&", "[">> \o DecDigits(id) \o <<"]">>

SumName == <<"s", "u", "m">>

IsLineRefName(name) == Len(name) > 0 /\ name[1] = "&"

\* ------------------------------------------------------------------------
\* Tokenizer (token_parser.rs).  Left to right: a known name (longest match,
\* first of the table on a tie) gives a Variable or LineReference token, a
\* reference to an unknown line id is raw text, a run of digits is a
\* NumberLiteral, "m" the unit metre, "+", "*" and "=" the operators, a
\* matrix literal one Matrix token; whitespace is skipped and any other
\* character is kept as raw text.
\* ------------------------------------------------------------------------
Token(typ, val) == [typ |-> typ, val |-> val]

NameMatchesAt(line, i, name) ==
  /\ i + Len(name) - 1 <= Len(line)
  /\ SubSeq(line, i, i + Len(name) - 1) = name

\* index in vs of the known name found at position i, 0 when there is none
MatchName(line, i, vs) ==
  LET hits == {k \in 1..Len(vs) : NameMatchesAt(line, i, vs[k].name)}
      best == {k \in hits : \A j \in hits : Len(vs[j].name) <= Len(vs[k].name)}
  IN IF hits = {} THEN 0 ELSE CHOOSE k \in best : \A j \in best : k <= j

RECURSIVE DigitRunEnd(_, _)
DigitRunEnd(line, i) ==
  IF i + 1 <= Len(line) /\ line[i + 1] \in Digit
  THEN DigitRunEnd(line, i + 1)
  ELSE i

RECURSIVE DecValue(_)
DecValue(digits) ==
  IF digits = <<>> THEN 0
  ELSE 10 * DecValue(SubSeq(digits, 1, Len(digits) - 1))
         + DigitVal(digits[Len(digits)])

\* the last position of a reference-shaped text &[<digits>] starting at i, 0
\* when the text at i has not that shape
RefShapeEnd(line, i) ==
  IF /\ i + 3 <= Len(line)
     /\ line[i] = "&"
     /\ line[i + 1] = "["
     /\ line[i + 2] \in Digit
  THEN LET e == DigitRunEnd(line, i + 2) IN
       IF e + 1 <= Len(line) /\ line[e + 1] = "]" THEN e + 1 ELSE 0
  ELSE 0

\* a matrix literal: "[", then cells that are runs of digits, "," between
\* the cells of a row and ";" between the rows, then "]"; there is at least
\* one separator and every row has the same number of cells.  The scan is
\* at the first character of a cell; end = 0 when the text is no literal.
NoMatrix == [end |-> 0, row_count |-> 0, col_count |-> 0, cells |-> <<>>]

RECURSIVE ScanMatrix(_, _, _, _, _, _)
ScanMatrix(line, i, cells, row_len, col_i, row_i) ==
  IF i > Len(line) \/ line[i] \notin Digit THEN NoMatrix
  ELSE
    LET e == DigitRunEnd(line, i)
        with_cell == Append(cells, SubSeq(line, i, e))
        row_ok == row_len = 0 \/ col_i + 1 = row_len
    IN IF e + 1 > Len(line) THEN NoMatrix
       ELSE IF line[e + 1] = ","
       THEN ScanMatrix(line, e + 2, with_cell, row_len, col_i + 1, row_i)
       ELSE IF line[e + 1] = ";" /\ row_ok
       THEN ScanMatrix(line, e + 2, with_cell, col_i + 1, 0, row_i + 1)
       ELSE IF line[e + 1] = "]" /\ row_ok /\ Len(with_cell) > 1
       THEN [end |-> e + 1, row_count |-> row_i + 1, col_count |-> col_i + 1,
             cells |-> with_cell]
       ELSE NoMatrix

\* the matrix literal that starts at position i of the line
MatrixAt(line, i) ==
  IF i <= Len(line) /\ line[i] = "[" THEN ScanMatrix(line, i + 1, <<>>, 0, 0, 0)
  ELSE NoMatrix

\* the value of a matrix literal
MatrixValue(m) ==
  Matrix(m.row_count, m.col_count,
         [k \in 1..Len(m.cells) |-> Number(DecValue(m.cells[k]), 0)])

RECURSIVE Tokenize(_, _, _)
Tokenize(line, i, vs) ==
  IF i > Len(line) THEN <<>>
  ELSE
    LET k == MatchName(line, i, vs) IN
    IF k # 0
    THEN <<Token(IF IsLineRefName(vs[k].name) THEN "LineReference"
                 ELSE "Variable", k)>>
           \o Tokenize(line, i + Len(vs[k].name), vs)
    ELSE IF RefShapeEnd(line, i) # 0
    THEN <<Token("StringLiteral", 0)>>
           \o Tokenize(line, RefShapeEnd(line, i) + 1, vs)
    ELSE IF line[i] \in Digit
    THEN LET e == DigitRunEnd(line, i) IN
         <<Token("NumberLiteral", DecValue(SubSeq(line, i, e)))>>
           \o Tokenize(line, e + 1, vs)
    ELSE IF is_ascii_whitespace(line[i]) THEN Tokenize(line, i + 1, vs)
    ELSE IF line[i] = "m" THEN <<Token("Unit", 1)>> \o Tokenize(line, i + 1, vs)
    ELSE IF line[i] = "+" THEN <<Token("Add", 0)>> \o Tokenize(line, i + 1, vs)
    ELSE IF line[i] = "*" THEN <<Token("Mul", 0)>> \o Tokenize(line, i + 1, vs)
    ELSE IF line[i] = "=" THEN <<Token("Assign", 0)>> \o Tokenize(line, i + 1, vs)
    ELSE IF MatrixAt(line, i).end # 0
    THEN <<Token("Matrix", MatrixValue(MatrixAt(line, i)))>>
           \o Tokenize(line, MatrixAt(line, i).end + 1, vs)
    ELSE <<Token("StringLiteral", 0)>> \o Tokenize(line, i + 1, vs)

\* TokenParser::parse_line
parse_line(line, vs) == Tokenize(line, 1, vs)

\* ------------------------------------------------------------------------
\* Assignment shape: <identifier> = <expr>, the identifier being letters
\* between optional whitespace.
\* ------------------------------------------------------------------------
RECURSIVE IndexOf(_, _, _)
\* first position >= i of ch in line, 0 when there is none
IndexOf(line, ch, i) ==
  IF i > Len(line) THEN 0
  ELSE IF line[i] = ch THEN i
  ELSE IndexOf(line, ch, i + 1)

RECURSIVE Trim(_)
Trim(s) ==
  IF s = <<>> THEN s
  ELSE IF is_ascii_whitespace(s[1]) THEN Trim(Tail(s))
  ELSE IF is_ascii_whitespace(s[Len(s)]) THEN Trim(SubSeq(s, 1, Len(s) - 1))
  ELSE s

IsIdentifier(s) == s # <<>> /\ \A i \in 1..Len(s) : s[i] \in Letter

IsAssignmentShape(line) ==
  LET p == IndexOf(line, "=", 1) IN
  p > 1 /\ IsIdentifier(Trim(SubSeq(line, 1, p - 1)))

\* the text evaluated: the right-hand side of an assignment, else the line
ExprText(line) ==
  IF IsAssignmentShape(line)
  THEN SubSeq(line, IndexOf(line, "=", 1) + 1, Len(line))
  ELSE line

\* ------------------------------------------------------------------------
\* Shunting yard and stack evaluation (shunting_yard.rs, calc.rs), as
\* sum-of-products: a unit folds into the number before it, two operands
\* with no operator between them are multiplied, text is inert, and a
\* missing operand, a stray unit or incompatible units give no result.
\* ------------------------------------------------------------------------
RECURSIVE Operands(_, _, _)
Operands(toks, i, vs) ==
  IF i > Len(toks) THEN <<>>
  ELSE
    LET t == toks[i] IN
    IF t.typ = "NumberLiteral"
    THEN IF i + 1 <= Len(toks) /\ toks[i + 1].typ = "Unit"
         THEN <<Token("Val", Number(t.val, toks[i + 1].val))>>
                \o Operands(toks, i + 2, vs)
         ELSE <<Token("Val", Number(t.val, 0))>> \o Operands(toks, i + 1, vs)
    ELSE IF t.typ \in {"Variable", "LineReference"}
    THEN <<Token("Val", vs[t.val].val)>> \o Operands(toks, i + 1, vs)
    ELSE IF t.typ = "Matrix"
    THEN <<Token("Val", t.val)>> \o Operands(toks, i + 1, vs)
    ELSE IF t.typ \in {"Add", "Mul"} THEN <<t>> \o Operands(toks, i + 1, vs)
    ELSE IF t.typ = "Unit" THEN <<Token("Bad", 0)>> \o Operands(toks, i + 1, vs)
    ELSE Operands(toks, i + 1, vs)

RECURSIVE EvalItems(_, _, _, _, _)
\* total: the sum of the finished terms, term: the product being built,
\* need: an explicit "*" waits for its right operand
EvalItems(items, i, total, term, need) ==
  IF i > Len(items)
  THEN IF term = None \/ need THEN None
       ELSE IF total = None THEN term
       ELSE add_op(total, term)
  ELSE
    LET it == items[i] IN
    IF it.typ = "Val"
    THEN IF term = None
         THEN EvalItems(items, i + 1, total, it.val, FALSE)
         ELSE LET p == mul_op(term, it.val) IN
              IF p = None THEN None
              ELSE EvalItems(items, i + 1, total, p, FALSE)
    ELSE IF it.typ = "Mul"
    THEN IF term = None \/ need THEN None
         ELSE EvalItems(items, i + 1, total, term, TRUE)
    ELSE IF it.typ = "Add"
    THEN IF term = None \/ need THEN None
         ELSE LET s == IF total = None THEN term ELSE add_op(total, term) IN
              IF s = None THEN None
              ELSE EvalItems(items, i + 1, s, None, FALSE)
    ELSE None

\* calc::evaluate_tokens of the line's tokens against the variable table:
\* None, or EvaluationResult {result, assignment}
evaluate_tokens(line, vs) ==
  LET toks == parse_line(ExprText(line), vs)
      res == EvalItems(Operands(toks, 1, vs), 1, None, None, FALSE)
  IN IF res = None THEN None
     ELSE [kind |-> "Some", result |-> res,
           assignment |-> IsAssignmentShape(line)]

\* ------------------------------------------------------------------------
\* Result formatter (renderer.rs): the digits of the value in the base of
\* the line's ResultFormat, then a space and the unit's symbol when there is
\* a unit.  The 0b / 0x prefix of a binary or hexadecimal result is drawn by
\* render, it is not among the bytes of the result.
\* ------------------------------------------------------------------------
UnitText(u) == IF u = 1 THEN <<"m">> ELSE <<"m", "^">> \o DecDigits(u)

HexDigitChar(d) ==
  IF d < 10 THEN DigitChar(d)
  ELSE CASE d = 10 -> "A" [] d = 11 -> "B" [] d = 12 -> "C"
         [] d = 13 -> "D" [] d = 14 -> "E" [] OTHER -> "F"

RECURSIVE BaseDigits(_, _)
BaseDigits(n, base) ==
  IF n < base THEN <<HexDigitChar(n)>>
  ELSE BaseDigits(n \div base, base) \o <<HexDigitChar(n % base)>>

\* the base a ResultFormat writes integers in
BaseOf(result_format) ==
  CASE result_format = "Bin" -> 2
    [] result_format = "Hex" -> 16
    [] OTHER -> 10

render_result_into(result, result_format) ==
  BaseDigits(result.val, BaseOf(result_format))
    \o (IF result.unit = 0 THEN <<>> ELSE <<" ">> \o UnitText(result.unit))

\* render_result(units, result, &ResultFormat::Dec, ..)
render_result(result) == render_result_into(result, "Dec")

\* ResultBytes writing the cells of a matrix result as well
RECURSIVE ResultBytesWithCells(_, _, _)
ResultBytesWithCells(res, data, i) ==
  IF i > Len(res) THEN <<>>
  ELSE (IF res[i] = None THEN <<>>
        ELSE IF res[i].kind = "Matrix"
        THEN ResultBytesWithCells(res[i].cells,
                                  [k \in 1..Len(res[i].cells) |-> data[i]], 1)
        ELSE render_result_into(res[i], data[i].result_format))
         \o ResultBytesWithCells(res, data, i + 1)

\* the bytes render_results writes for results[i..], one after the other:
\* a scalar result is written in the result_format of its line's data, a
\* matrix result goes to render_matrix_result
RECURSIVE ResultBytes(_, _, _)
ResultBytes(res, data, i) ==
  IF i > Len(res) THEN <<>>
  ELSE (IF res[i] = None \/ res[i].kind = "Matrix" THEN <<>>
        ELSE render_result_into(res[i], data[i].result_format))
         \o ResultBytes(res, data, i + 1)

\* render_results on the buffer: the bytes are written from index 0 on and
\* nothing else of the buffer is touched.  The buffer is kept as its bytes
\* up to the last one ever written; all bytes after these are 0.
render_results(res, data, buffer) ==
  LET bytes == ResultBytes(res, data, 1) IN
  bytes \o SubSeq(buffer, Len(bytes) + 1, Len(buffer))

\* ------------------------------------------------------------------------
\* get_normalized_content
\* ------------------------------------------------------------------------
\* the scan for the closing bracket of a reference: the position of "]" and
\* the number read, or end = 0 when the text is not a reference
RECURSIVE ScanRef(_, _, _)
ScanRef(line, end, num) ==
  IF end > Len(line) THEN [end |-> 0, num |-> 0]
  ELSE IF line[end] = "]" /\ num > 0 THEN [end |-> end, num |-> num]
  ELSE IF line[end] \in Digit
  THEN ScanRef(line, end + 1,
               IF num = 0 THEN DigitVal(line[end])
               ELSE num * 10 + DigitVal(line[end]))
  ELSE [end |-> 0, num |-> 0]

\* the digits of line_id as they are pushed: lowest digit first
RECURSIVE PushedDigits(_)
PushedDigits(line_id) ==
  IF line_id > 0
  THEN <<DigitChar(line_id % 10)>> \o PushedDigits(line_id \div 10)
  ELSE <<>>

\* "reverse the number": the last byte changes place with the one replace_i
\* before it
RowDigits(row_index) ==
  LET pushed == PushedDigits(row_index)
      last_i == Len(pushed)
      replace_i == IF row_index > 99 THEN 2 ELSE IF row_index > 9 THEN 1 ELSE 0
  IN IF replace_i # 0
     THEN [pushed EXCEPT ![last_i] = pushed[last_i - replace_i],
                         ![last_i - replace_i] = pushed[last_i]]
     ELSE pushed

\* RowIndexOf without the "+ 1"
RowIndexOfZeroBased(data, num) ==
  IF \E r \in 1..Len(data) : data[r].line_id = num
  THEN (CHOOSE r \in 1..Len(data) :
          /\ data[r].line_id = num
          /\ \A q \in 1..(r - 1) : data[q].line_id # num) - 1
  ELSE 0

\* data().iter().position(|it| it.line_id == num).unwrap_or(0) + 1
RowIndexOf(data, num) ==
  (IF \E r \in 1..Len(data) : data[r].line_id = num
   THEN (CHOOSE r \in 1..Len(data) :
           /\ data[r].line_id = num
           /\ \A q \in 1..(r - 1) : data[q].line_id # num) - 1
   ELSE 0) + 1

\* ReferenceText leaving the stable id in the text
ReferenceTextKeepingId(data, num) == <<"&", "[">> \o DecDigits(num) \o <<"]">>

\* the text written for a reference to the stable id num
ReferenceText(data, num) ==
  <<"&", "[">> \o RowDigits(RowIndexOf(data, num)) \o <<"]">>

RECURSIVE NormalizeLine(_, _, _)
NormalizeLine(line, i, data) ==
  IF i > Len(line) THEN <<>>
  ELSE
    LET ref == IF i + 3 <= Len(line) /\ line[i] = "&" /\ line[i + 1] = "["
               THEN ScanRef(line, i + 2, 0)
               ELSE [end |-> 0, num |-> 0]
    IN IF ref.end # 0
       THEN ReferenceText(data, ref.num)
              \o NormalizeLine(line, ref.end + 1, data)
       ELSE <<line[i]>> \o NormalizeLine(line, i + 1, data)

RECURSIVE NormalizeLines(_, _)
NormalizeLines(data, r) ==
  IF r > Len(data) THEN <<>>
  ELSE NormalizeLine(data[r].text, 1, data) \o <<"\n">>
         \o NormalizeLines(data, r + 1)

\* ------------------------------------------------------------------------
\* Inputs
\* ------------------------------------------------------------------------
T_3m == <<"3", "m">>
T_3m2m == <<"3", "m", " ", "*", " ", "2", "m">>
T_1 == <<"1">>
T_2 == <<"2">>
T_4 == <<"4">>
T_sum == <<"s", "u", "m">>
T_sep == <<"-", "-">>
T_x2 == <<"x", " ", "=", " ", "2">>
T_x5 == <<" ", "x", "=", " ", "5">>
T_x == <<"x">>
T_sum4 == <<"s", "u", "m", " ", "=", " ", "4">>
T_err == <<"2", "+">>
T_ref9 == <<"&", "[", "9", "]">>
T_ref1 == <<"&", "[", "1", "]">>
T_qx5 == <<"'", "x", "=", "5">>
T_sep4 == <<"-", "-", "4">>
T_m123 == <<"[", "1", ",", "2", ",", "3", "]">>
T_5 == <<"5">>
T_m22 == <<"[", "1", ",", "2", ";", "3", ",", "4", "]">>

\* the one-line texts typed, on an empty line or after a newline
TypedTexts == {T_4, T_sep, T_x5, T_x, T_err}

\* the documents given as a whole, as their lines
Documents ==
  { <<T_3m2m, T_sep, T_1, T_2, T_sum>>,
    <<T_3m2m, T_4, T_sum>>,
    <<T_3m, T_sep, T_4, T_sum4, T_sum>>,
    <<T_3m, T_sum4, T_sum, T_sum>>,
    <<T_4, T_sep, T_sum>>,
    <<T_4, T_x, T_x5, T_x>>,
    <<T_x2, T_x5, T_x>>,
    <<T_4, T_2, <<>>>>,
    <<T_4, T_ref9>>,
    <<T_4, T_qx5, T_x, T_sum>>,
    <<T_4, T_sep4, T_sum>>,
    <<T_m123, T_sum>>,
    <<T_m123, T_4>> }

\* a document of one line more than a pass visits
LongDocument ==
  [i \in 1..(MAX_LINE_COUNT + 1) |->
     IF i = MAX_LINE_COUNT + 1 THEN T_3m2m ELSE T_1]

\* the texts handle_input(EditorInputEvent::Text(..)) is called with, as the
\* lines the text has between its newlines
InputTexts ==
  {<<t>> : t \in TypedTexts} \cup {<<<<>>, t>> : t \in TypedTexts}
    \cup Documents \cup {LongDocument}

\* the document typed before the display formats are changed
FormatTexts == {<<T_2, T_4, T_5>>}

\* the document typed before the keys are pressed
EditTexts == {<<T_4, T_m22, T_1>>}

\* the document with a line reference that is loaded before the keys
ReferenceDoc == <<T_4, T_ref1>>

\* a document loaded while the keys are pressed: the matrix of EditTexts
\* two columns further right in its row
T_2plus_m22 == <<"2", "+">> \o T_m22
MovedDoc == <<T_4, T_2plus_m22>>

\* documents that end with lines `sum`: after a number, after a marker,
\* after assignments, after a result the sum cannot take
SumDocs ==
  { <<T_4, T_sum, T_sum>>,
    <<T_4, T_sep, T_sum, T_sum>>,
    <<T_x2, T_sum4, T_sum>>,
    <<T_3m, T_4, T_sum>> }

\* the documents set_normalized_content is called with
NormalizedDocs ==
  { <<T_x2, T_x5, T_x>>,
    <<T_4, T_sep, T_sum>>,
    <<T_4, T_ref1>> }

\* ------------------------------------------------------------------------
\* State
\* ------------------------------------------------------------------------
VARIABLES
  lines,                   \* editor_content: per row [text, line_id]
  cursor,                  \* editor.get_selection().get_cursor_pos()
  line_reference_chooser,  \* Option<usize>: <<>> or <<row>>
  line_id_generator,
  has_result_bitset,       \* the set of the bits that are 1
  pc,                      \* "idle", "lines" (inside render's loop), "panic"
  row,                     \* r.editor_pos.row of the line render is at
  vars,                    \* render's vars: sequence of [name, val]
  sum_is_null,
  results,                 \* render's results
  sum_log,                 \* history: per visited row, the sum and
                           \* sum_is_null the row started with
  last_pass,               \* history: outcome of the latest pass, while the
                           \* document is as that pass saw it
  result_buffer,           \* the bytes up to the last one ever written
  normalized_content,      \* <<the String get_normalized_content returned>>
                           \* while that call is the latest one, else <<>>
  last_op,                 \* history: the operation called latest
  selection_start,         \* editor.get_selection(): <<>> when it is a single
                           \* position (the cursor), <<start>> when a range
                           \* that goes from start to the cursor
  prev_cursor_pos,
  matrix_editing,          \* Option<MatrixEditing>: <<>> or <<mat_edit>>
  editor_objects,          \* Vec<EditorObject>
  modified,                \* history: what handle_input returned while that
                           \* call is the latest operation, else FALSE
  edit_count,              \* history: the single characters typed or
                           \* deleted by key so far
  last_input               \* history: the input of handle_matrix_editor_input
                           \* while that call is the latest operation, else
                           \* "None"

vars_all == <<lines, cursor, line_reference_chooser, line_id_generator,
              has_result_bitset, pc, row, vars, sum_is_null, results,
              sum_log, last_pass, result_buffer, normalized_content, last_op,
              selection_start, prev_cursor_pos, matrix_editing,
              editor_objects, modified, edit_count, last_input>>

Pos(r, c) == [row |-> r, column |-> c]

\* LineData {line_id, result_format} of a line, with the line's text;
\* result_format is ResultFormat::Dec by default
LineData(text, id) == [text |-> text, line_id |-> id, result_format |-> "Dec"]

NoPass == [valid |-> FALSE, results |-> <<>>, bits |-> {}, vars |-> <<>>]

line_count == Len(lines)

\* NoteCalcApp::new
Init ==
  /\ lines = <<LineData(<<>>, 0)>>
  /\ cursor = Pos(0, 0)
  /\ line_reference_chooser = <<>>
  /\ line_id_generator = 1
  /\ has_result_bitset = {}
  /\ pc = "idle"
  /\ row = 0
  /\ vars = <<>>
  /\ sum_is_null = TRUE
  /\ results = <<>>
  /\ sum_log = <<>>
  /\ last_pass = NoPass
  /\ result_buffer = <<>>
  /\ normalized_content = <<>>
  /\ last_op = "new"
  /\ selection_start = <<>>
  /\ prev_cursor_pos = Pos(0, 0)
  /\ matrix_editing = <<>>
  /\ editor_objects = <<>>
  /\ modified = FALSE
  /\ edit_count = 0
  /\ last_input = "None"

render_locals == <<row, vars, sum_is_null, results, sum_log>>

\* Selection::is_range
is_range == selection_start # <<>>

\* what render keeps of the editor between two passes
edit_locals == <<prev_cursor_pos, matrix_editing, editor_objects, edit_count>>

\* ------------------------------------------------------------------------
\* set_normalized_content
\* ------------------------------------------------------------------------
\* loaded_line_id giving the row itself
loaded_line_id_by_row(i) == i

\* the line id of the enumerate() index i
loaded_line_id(i) == i + 1

\* loaded_generator leaving the generator where it is
loaded_generator_kept(count, generator) == generator

\* loaded_generator starting at the line count
loaded_generator_at_line_count(count, generator) == count

\* the generator after loading count lines
loaded_generator(count, generator) == count + 1

set_normalized_content(doc) ==
  /\ pc = "idle"
  /\ lines' = [i \in 1..Len(doc) |-> LineData(doc[i], loaded_line_id(i - 1))]
  /\ cursor' = Pos(0, 0)
  /\ line_id_generator' = loaded_generator(Len(doc), line_id_generator)
  /\ last_pass' = NoPass
  /\ normalized_content' = <<>>
  /\ last_op' = "set_normalized_content"
  /\ last_input' = "None"
  /\ modified' = FALSE
  /\ selection_start' = <<>>
  /\ UNCHANGED <<line_reference_chooser, has_result_bitset, pc, render_locals,
                 result_buffer, edit_locals>>

\* ------------------------------------------------------------------------
\* Editor::handle_input(EditorInputEvent::Text(t)) with no selection range:
\* the text goes in at the cursor, a newline splits the line and the new
\* line gets LineData::default(); the cursor ends after the inserted text.
\* ------------------------------------------------------------------------
InsertAt(text, col, t) ==
  SubSeq(text, 1, col) \o t \o SubSeq(text, col + 1, Len(text))

editor_insert_text(ls, cur, t) ==
  [ls EXCEPT ![cur.row + 1].text = InsertAt(@, cur.column, t)]

\* t is the inserted text as its lines: the first joins the text before the
\* cursor, the last is followed by the text after the cursor
editor_insert_lines(ls, cur, t) ==
  LET old == ls[cur.row + 1]
      before == SubSeq(old.text, 1, cur.column)
      after == SubSeq(old.text, cur.column + 1, Len(old.text))
      n == Len(t)
      new(i) ==
        IF i = 1 THEN [old EXCEPT !.text = before \o t[1]]
        ELSE IF i = n THEN LineData(t[n] \o after, 0)
        ELSE LineData(t[i], 0)
  IN IF n = 1 THEN editor_insert_text(ls, cur, t[1])
     ELSE SubSeq(ls, 1, cur.row) \o [i \in 1..n |-> new(i)]
            \o SubSeq(ls, cur.row + 2, Len(ls))

IsEmptyDocument == lines = <<LineData(<<>>, 0)>>

\* handle_input(Text(t)), no modifier, no matrix being edited
handle_input_Text(t) ==
  /\ pc = "idle"
  /\ matrix_editing = <<>>
  /\ ~is_range
  /\ \/ IsEmptyDocument
     \/ /\ Len(t) = 1
        /\ lines[cursor.row + 1].text = <<>>
     \/ /\ Len(t) = 2
        /\ line_count < MaxLines
        /\ cursor.column = Len(lines[cursor.row + 1].text)
  /\ lines' = editor_insert_lines(lines, cursor, t)
  /\ cursor' = Pos(cursor.row + Len(t) - 1,
                   IF Len(t) = 1 THEN cursor.column + Len(t[1])
                   ELSE Len(t[Len(t)]))
  /\ last_pass' = NoPass
  /\ normalized_content' = <<>>
  /\ last_op' = "handle_input"
  /\ prev_cursor_pos' = cursor
  /\ modified' = TRUE
  /\ last_input' = "None"
  /\ UNCHANGED <<line_reference_chooser, line_id_generator, has_result_bitset,
                 pc, render_locals, result_buffer, selection_start,
                 matrix_editing, editor_objects, edit_count>>

\* handle_input(Up, alt)
handle_input_AltUp ==
  LET chooser ==
        IF line_reference_chooser # <<>>
        THEN IF line_reference_chooser[1] > 0
             THEN <<line_reference_chooser[1] - 1>>
             ELSE line_reference_chooser
        ELSE IF cursor.row > 0 THEN <<cursor.row - 1>>
        ELSE <<>>
  IN
  /\ pc = "idle"
  /\ matrix_editing = <<>>
  /\ chooser # <<>> => chooser[1] <= MaxChooserRow
  /\ line_reference_chooser' = chooser
  /\ normalized_content' = <<>>
  /\ last_op' = "handle_input"
  /\ modified' = FALSE
  /\ last_input' = "None"
  /\ UNCHANGED <<lines, cursor, line_id_generator, has_result_bitset, pc,
                 render_locals, last_pass, result_buffer, selection_start,
                 edit_locals>>

\* handle_input(Down, alt)
handle_input_AltDown ==
  LET chooser ==
        IF line_reference_chooser # <<>>
        THEN IF line_reference_chooser[1] < line_count
             THEN <<line_reference_chooser[1] + 1>>
             ELSE line_reference_chooser
        ELSE IF cursor.row < line_count THEN <<cursor.row + 1>>
        ELSE <<>>
  IN
  /\ pc = "idle"
  /\ matrix_editing = <<>>
  /\ chooser # <<>> => chooser[1] <= MaxChooserRow
  /\ line_reference_chooser' = chooser
  /\ normalized_content' = <<>>
  /\ last_op' = "handle_input"
  /\ modified' = FALSE
  /\ last_input' = "None"
  /\ UNCHANGED <<lines, cursor, line_id_generator, has_result_bitset, pc,
                 render_locals, last_pass, result_buffer, selection_start,
                 edit_locals>>

\* ------------------------------------------------------------------------
\* alt_key_released
\* ------------------------------------------------------------------------
\* format!("&[{}]", line_id)
LineRefText(line_id) == <<"&", "[">> \o DecDigits(line_id) \o <<"]">>

\* take_line_id giving the line a new id on every reference
take_line_id_always_fresh(line_data, generator) ==
  [line_id |-> generator, generator |-> generator + 1]

\* the id of the chosen line, assigned from the generator when it has none
take_line_id(line_data, generator) ==
  IF line_data.line_id = 0
  THEN [line_id |-> generator, generator |-> generator + 1]
  ELSE [line_id |-> line_data.line_id, generator |-> generator]

alt_key_released ==
  /\ pc = "idle"
  /\ normalized_content' = <<>>
  /\ last_op' = "alt_key_released"
  /\ last_input' = "None"
  /\ modified' = FALSE
  /\ UNCHANGED <<selection_start, edit_locals>>
  /\ IF line_reference_chooser = <<>>
     THEN UNCHANGED <<lines, cursor, line_reference_chooser, line_id_generator,
                      has_result_bitset, pc, render_locals, last_pass,
                      result_buffer>>
     ELSE
       LET cur_row == cursor.row
           row_index == line_reference_chooser[1]
           returns == UNCHANGED <<lines, cursor, line_id_generator,
                                  has_result_bitset, pc, render_locals,
                                  last_pass, result_buffer>>
           panics == /\ pc' = "panic"
                     /\ UNCHANGED <<lines, cursor, line_id_generator,
                                    has_result_bitset, render_locals,
                                    last_pass, result_buffer>>
       IN
       /\ line_reference_chooser' = <<>>
       /\ IF cur_row = row_index
          THEN returns
          ELSE IF row_index \notin has_result_bitset
          THEN \* 1u64 << row_index: row_index <= MaxChooserRow < 64
               returns
          ELSE IF row_index >= line_count
          THEN \* mut_data(row_index) indexes past the end of the line data
               panics
          ELSE
            LET taken == take_line_id(lines[row_index + 1], line_id_generator)
                with_id == [lines EXCEPT ![row_index + 1].line_id =
                                           taken.line_id]
                inserting_text == LineRefText(taken.line_id)
            IN
            /\ taken.generator # line_id_generator
                 => line_id_generator <= MaxLineId
            /\ Len(lines[cur_row + 1].text) + Len(inserting_text)
                 <= MaxLineLen
            /\ ~is_range
            /\ line_id_generator' = taken.generator
            /\ lines' = editor_insert_text(with_id, cursor, inserting_text)
            /\ cursor' = Pos(cursor.row, cursor.column + Len(inserting_text))
            /\ last_pass' = NoPass
            /\ UNCHANGED <<has_result_bitset, pc, render_locals,
                           result_buffer>>

\* ------------------------------------------------------------------------
\* get_normalized_content: the document as text, one line after the other
\* ------------------------------------------------------------------------
get_normalized_content ==
  /\ pc = "idle"
  /\ normalized_content' = <<NormalizeLines(lines, 1)>>
  /\ last_op' = "get_normalized_content"
  /\ last_input' = "None"
  /\ modified' = FALSE
  /\ UNCHANGED <<lines, cursor, line_reference_chooser, line_id_generator,
                 has_result_bitset, pc, render_locals, last_pass,
                 result_buffer, selection_start, edit_locals>>

\* ------------------------------------------------------------------------
\* render: the evaluation pass
\* ------------------------------------------------------------------------
Var(name, val) == [name |-> name, val |-> val]

\* the name left of "=": leading whitespace skipped, trailing trimmed
RECURSIVE SkipWhitespace(_, _)
SkipWhitespace(line, i) ==
  IF is_ascii_whitespace(line[i]) THEN SkipWhitespace(line, i + 1) ELSE i

RECURSIVE SkipWhitespaceBack(_, _)
SkipWhitespaceBack(line, i) ==
  IF is_ascii_whitespace(line[i]) THEN SkipWhitespaceBack(line, i - 1) ELSE i

var_name(line) ==
  LET start == SkipWhitespace(line, 1)
      eq == IndexOf(line, "=", start)
      end == SkipWhitespaceBack(line, eq - 1)
  IN SubSeq(line, start, end)

\* sum_update keeping the old sum when the addition fails
sum_update_keeping(sum, is_null, result) ==
  IF is_null THEN result
  ELSE unwrap_or(add_op(sum, result), sum)

\* sum_update restarting the sum from the result when the addition fails
sum_update_restarting(sum, is_null, result) ==
  IF is_null THEN result
  ELSE unwrap_or(add_op(sum, result), result)

\* the update of vars[SUM_VARIABLE_INDEX] by a line's result
sum_update(sum, is_null, result) ==
  IF is_null THEN result
  ELSE unwrap_or(add_op(sum, result), Zero)

\* vars.iter().position(|it| it.0 == name): 0 when there is none
position(vs, name) ==
  IF \E i \in 1..Len(vs) : vs[i].name = name
  THEN CHOOSE i \in 1..Len(vs) :
         /\ vs[i].name = name
         /\ \A j \in 1..(i - 1) : vs[j].name # name
  ELSE 0

\* declare leaving a name that is already in the table as it is
declare_keeping_first(vs, name, result) ==
  LET i == position(vs, name) IN
  IF i # 0 THEN vs
  ELSE Append(vs, Var(name, result))

\* declare appending without looking the name up
declare_appending(vs, name, result) == Append(vs, Var(name, result))

\* variable redeclaration
declare(vs, name, result) ==
  LET i == position(vs, name) IN
  IF i # 0 THEN [vs EXCEPT ![i].val = result]
  ELSE Append(vs, Var(name, result))

\* no_result clearing the sum accumulator
no_result_clearing_sum(bits, vs, res, is_null) ==
  [bits |-> bits, results |-> Append(res, None), sum_is_null |-> is_null,
   vars |-> [vs EXCEPT ![SUM_VARIABLE_INDEX + 1].val = Zero]]

\* the line's evaluation gave no result
no_result(bits, vs, res, is_null) ==
  [bits |-> bits, results |-> Append(res, None), sum_is_null |-> is_null,
   vars |-> vs]

\* NoteCalcApp::evaluate_tokens: what one evaluated line does to the pass
EvaluateLine(bits, vs, editor_y, line_data, res, is_null) ==
  LET line == line_data.text
      ev == evaluate_tokens(line, vs)
  IN
  IF ev # None
  THEN
    LET with_sum ==
          [vs EXCEPT ![SUM_VARIABLE_INDEX + 1].val =
                       sum_update(@, is_null, ev.result)]
    IN [bits |-> bits \cup {editor_y},
        results |-> Append(res, ev.result),
        sum_is_null |-> FALSE,
        vars |-> IF ev.assignment
                 THEN declare(with_sum, var_name(line), ev.result)
                 ELSE IF line_data.line_id # 0
                 THEN Append(with_sum,
                             Var(STATIC_LINE_IDS(line_data.line_id), ev.result))
                 ELSE with_sum]
  ELSE no_result(bits, vs, res, is_null)

Min(a, b) == IF a < b THEN a ELSE b

\* PassLength without take(MAX_LINE_COUNT)
PassLengthUncapped == line_count

\* the rows the loop visits: lines().take(MAX_LINE_COUNT)
PassLength == Min(line_count, MAX_LINE_COUNT)

\* IsTextLine taking only a line that is the prefix and nothing else
IsTextLineBarePrefix(line) == line = <<"-", "-">> \/ line = <<"'">>

IsTextLine(line) == starts_with(line, <<"-", "-">>) \/ starts_with(line, <<"'">>)

\* text_line_sum_is_null without the reset by `--`
text_line_sum_is_null_unreset(line, is_null) == is_null

\* sum_is_null after a line that is shown as text
text_line_sum_is_null(line, is_null) ==
  IF starts_with(line, <<"-", "-">>) THEN TRUE ELSE is_null

\* ------------------------------------------------------------------------
\* Editor objects: render_tokens and render_matrix register the matrix
\* literals and the line references of a line with their columns
\* ------------------------------------------------------------------------
EditorObject(typ, r, start_x, end_x, row_count, col_count) ==
  [typ |-> typ, row |-> r, start_x |-> start_x, end_x |-> end_x,
   row_count |-> row_count, col_count |-> col_count]

PosBefore(a, b) == a.row < b.row \/ (a.row = b.row /\ a.column < b.column)

\* Selection::get_first, get_second: the ends of the selection in order
get_first ==
  IF is_range /\ PosBefore(selection_start[1], cursor)
  THEN selection_start[1] ELSE cursor

get_second ==
  IF is_range /\ ~PosBefore(selection_start[1], cursor)
  THEN selection_start[1] ELSE cursor

\* Selection::get_row_iter_incl
get_row_iter_incl == get_first.row..get_second.row

need_matrix_renderer(editor_y) ==
  ~is_range \/ editor_y \notin get_first.row..get_second.row

\* the objects of the tokens of the line from position i on, the tokens
\* being those of parse_line
RECURSIVE TokenObjects(_, _, _, _)
TokenObjects(line, i, vs, editor_y) ==
  IF i > Len(line) THEN <<>>
  ELSE
    LET k == MatchName(line, i, vs)
        m == MatrixAt(line, i)
    IN
    IF k # 0
    THEN (IF IsLineRefName(vs[k].name)
          THEN <<EditorObject("LineReference", editor_y, i - 1,
                              i - 1 + Len(vs[k].name), 0, 0)>>
          ELSE <<>>)
           \o TokenObjects(line, i + Len(vs[k].name), vs, editor_y)
    ELSE IF RefShapeEnd(line, i) # 0
    THEN TokenObjects(line, RefShapeEnd(line, i) + 1, vs, editor_y)
    ELSE IF line[i] \in Digit
    THEN TokenObjects(line, DigitRunEnd(line, i) + 1, vs, editor_y)
    ELSE IF m.end # 0
    THEN <<EditorObject("Matrix", editor_y, i - 1, m.end, m.row_count,
                        m.col_count)>>
           \o TokenObjects(line, m.end + 1, vs, editor_y)
    ELSE TokenObjects(line, i + 1, vs, editor_y)

\* render_tokens: what the line at editor_y adds to editor_objects
render_tokens(line, vs, editor_y) ==
  IF need_matrix_renderer(editor_y) THEN TokenObjects(line, 1, vs, editor_y)
  ELSE <<>>

\* (from..to).contains(col)
RangeContains(from, to, col) == from <= col /\ col < to

\* index_of_editor_object_at: the index (from 1) of the first object that
\* covers pos, 0 when there is none
index_of_editor_object_at(pos) ==
  LET hits == {k \in 1..Len(editor_objects) :
                 /\ editor_objects[k].row = pos.row
                 /\ RangeContains(editor_objects[k].start_x,
                                  editor_objects[k].end_x, pos.column)}
  IN IF hits = {} THEN 0 ELSE CHOOSE k \in hits : \A j \in hits : k <= j

\* find_editor_object_at
find_editor_object_at(pos) ==
  IF index_of_editor_object_at(pos) = 0 THEN None
  ELSE editor_objects[index_of_editor_object_at(pos)]

\* is_pos_inside_an_obj: the first object with pos strictly inside
is_pos_inside_an_obj(pos) ==
  LET hits == {k \in 1..Len(editor_objects) :
                 /\ editor_objects[k].row = pos.row
                 /\ RangeContains(editor_objects[k].start_x + 1,
                                  editor_objects[k].end_x, pos.column)}
  IN IF hits = {} THEN None
     ELSE editor_objects[CHOOSE k \in hits : \A j \in hits : k <= j]

\* ------------------------------------------------------------------------
\* MatrixEditing
\* ------------------------------------------------------------------------
\* the cell texts MatrixEditing::new reads from the literal's characters
RECURSIVE CellStrings(_, _, _, _, _)
CellStrings(src_canvas, i, str, cells, can_ignore_ws) ==
  LET done == IF Len(str) > 0 THEN Append(cells, str) ELSE cells IN
  IF i > Len(src_canvas) THEN done
  ELSE
    LET ch == src_canvas[i] IN
    IF ch = "[" THEN CellStrings(src_canvas, i + 1, str, cells, can_ignore_ws)
    ELSE IF ch = "]" THEN done
    ELSE IF ch = "," \/ ch = ";"
    THEN CellStrings(src_canvas, i + 1, <<>>, Append(cells, str), TRUE)
    ELSE IF is_ascii_whitespace(ch) /\ can_ignore_ws
    THEN CellStrings(src_canvas, i + 1, str, cells, can_ignore_ws)
    ELSE CellStrings(src_canvas, i + 1, Append(str, ch), cells, FALSE)

\* step_in_cell starting in the first cell wherever the cursor came from
step_in_cell_first(row_count, col_count, row_index, start_text_index, step_in_pos) == Pos(0, 0)

\* the cell MatrixEditing::new starts in
step_in_cell(row_count, col_count, row_index, start_text_index, step_in_pos) ==
  IF step_in_pos.row = row_index
  THEN IF step_in_pos.column > start_text_index
       THEN Pos(0, col_count - 1)
       ELSE Pos(0, 0)
  ELSE IF step_in_pos.row < row_index
  THEN Pos(0, 0)
  ELSE Pos(row_count - 1, 0)

\* index in cell_strings (from 1) of a cell
CellIndex(col_count, cell) == cell.row * col_count + cell.column + 1

MatrixEditing_new(row_count, col_count, src_canvas, row_index, start_text_index, end_text_index, step_in_pos) ==
  LET current_cell == step_in_cell(row_count, col_count, row_index,
                                   start_text_index, step_in_pos)
      cell_strings == CellStrings(src_canvas, 1, <<>>, <<>>, TRUE)
      content == cell_strings[CellIndex(col_count, current_cell)]
  IN [row_count |-> row_count,
      col_count |-> col_count,
      current_cell |-> current_cell,
      start_text_index |-> start_text_index,
      end_text_index |-> end_text_index,
      row_index |-> row_index,
      cell_strings |-> cell_strings,
      editor_content |-> content,
      editor_column |->
        IF step_in_pos.row = row_index /\ step_in_pos.column > start_text_index
        THEN Len(content)
        ELSE 0]

\* the matrix editing render leaves after its loop: it starts when the
\* cursor is inside a matrix object, no matrix is edited and the selection
\* is no range
matrix_editing_after_render ==
  LET editor_obj == is_pos_inside_an_obj(cursor) IN
  IF /\ editor_obj # None
     /\ editor_obj.typ = "Matrix"
     /\ matrix_editing = <<>>
     /\ ~is_range
  THEN <<MatrixEditing_new(
           editor_obj.row_count, editor_obj.col_count,
           SubSeq(lines[editor_obj.row + 1].text, editor_obj.start_x + 1,
                  editor_obj.end_x),
           editor_obj.row, editor_obj.start_x, editor_obj.end_x,
           prev_cursor_pos)>>
  ELSE matrix_editing

\* RenderStart with the line ids of the whole document known from the start
RenderStartKnowingAllIds ==
  /\ pc = "idle"
  /\ pc' = "lines"
  /\ results' = <<>>
  /\ vars' = <<Var(SumName, Zero)>>
               \o [i \in 1..Len(lines) |->
                     Var(STATIC_LINE_IDS(lines[i].line_id), Zero)]
  /\ sum_is_null' = TRUE
  /\ has_result_bitset' = {}
  /\ row' = 0
  /\ sum_log' = <<>>
  /\ normalized_content' = <<>>
  /\ last_op' = "render"
  /\ last_input' = "None"
  /\ modified' = FALSE
  /\ editor_objects' = <<>>
  /\ UNCHANGED <<lines, cursor, line_reference_chooser, line_id_generator,
                 last_pass, result_buffer, selection_start, prev_cursor_pos,
                 matrix_editing, edit_count>>

\* render up to its loop
RenderStart ==
  /\ pc = "idle"
  /\ pc' = "lines"
  /\ results' = <<>>
  /\ vars' = <<Var(SumName, Zero)>>
  /\ sum_is_null' = TRUE
  /\ has_result_bitset' = {}
  /\ row' = 0
  /\ sum_log' = <<>>
  /\ normalized_content' = <<>>
  /\ last_op' = "render"
  /\ last_input' = "None"
  /\ modified' = FALSE
  /\ editor_objects' = <<>>
  /\ UNCHANGED <<lines, cursor, line_reference_chooser, line_id_generator,
                 last_pass, result_buffer, selection_start, prev_cursor_pos,
                 matrix_editing, edit_count>>

\* the body of render's loop for the line at row
LineEffect ==
  LET line_data == lines[row + 1]
      line == line_data.text
  IN
  /\ IF IsTextLine(line)
     THEN /\ sum_is_null' = text_line_sum_is_null(line, sum_is_null)
          /\ results' = Append(results, None)
          /\ UNCHANGED <<vars, has_result_bitset, editor_objects>>
     ELSE LET out == EvaluateLine(has_result_bitset, vars, row, line_data,
                                  results, sum_is_null)
          IN /\ has_result_bitset' = out.bits
             /\ vars' = out.vars
             /\ results' = out.results
             /\ sum_is_null' = out.sum_is_null
             /\ editor_objects' =
                  editor_objects \o render_tokens(line, vars, row)
  /\ sum_log' = Append(sum_log, [sum |-> vars[SUM_VARIABLE_INDEX + 1].val,
                                 is_null |-> sum_is_null])
  /\ row' = row + 1

\* RenderLine giving a line without a stable id one as it is visited
RenderLineAssigningIds ==
  /\ pc = "lines"
  /\ row < PassLength
  /\ LineEffect
  /\ IF lines[row + 1].line_id = 0
     THEN /\ lines' = [lines EXCEPT ![row + 1].line_id = line_id_generator]
          /\ line_id_generator' = line_id_generator + 1
     ELSE UNCHANGED <<lines, line_id_generator>>
  /\ UNCHANGED <<cursor, line_reference_chooser, pc, last_pass, result_buffer,
                 normalized_content, last_op, selection_start,
                 prev_cursor_pos, matrix_editing, modified, edit_count,
                 last_input>>

\* one iteration of render's loop over the lines
RenderLine ==
  /\ pc = "lines"
  /\ row < PassLength
  /\ LineEffect
  /\ UNCHANGED <<lines, cursor, line_reference_chooser, line_id_generator, pc,
                 last_pass, result_buffer, normalized_content, last_op,
                 selection_start, prev_cursor_pos, matrix_editing, modified,
                 edit_count, last_input>>

\* render after its loop: render_results fills the result buffer and the
\* pass's locals go out of scope
RenderEnd ==
  /\ pc = "lines"
  /\ row >= PassLength
  /\ pc' = "idle"
  /\ result_buffer' = render_results(results, lines, result_buffer)
  /\ last_pass' = [valid |-> TRUE, results |-> results,
                   bits |-> has_result_bitset, vars |-> vars]
  /\ row' = 0
  /\ vars' = <<>>
  /\ sum_is_null' = TRUE
  /\ results' = <<>>
  /\ sum_log' = <<>>
  /\ matrix_editing' = matrix_editing_after_render
  /\ UNCHANGED <<lines, cursor, line_reference_chooser, line_id_generator,
                 has_result_bitset, normalized_content, last_op,
                 selection_start, prev_cursor_pos, editor_objects, modified,
                 edit_count, last_input>>

\* ------------------------------------------------------------------------
\* The keys of the main editor (editor.rs), for a selection that is a single
\* position: Left and Right step one column and wrap to the neighbouring
\* line, Up and Down keep the column where the neighbouring line has it,
\* Home and End go to the ends of the line, Backspace and Del remove one
\* character, a character key inserts the character.  With shift a move
\* extends the selection from where it started.
\* ------------------------------------------------------------------------
TypedChar == "7"

DeleteRange(text, from, to) ==
  SubSeq(text, 1, Min(from, Len(text)))
    \o SubSeq(text, Min(to, Len(text)) + 1, Len(text))

editor_move(input, ls, pos) ==
  LET len(r) == Len(ls[r + 1].text) IN
  CASE input = "Left" ->
         IF pos.column > 0 THEN Pos(pos.row, pos.column - 1)
         ELSE IF pos.row > 0 THEN Pos(pos.row - 1, len(pos.row - 1))
         ELSE pos
    [] input = "Right" ->
         IF pos.column < len(pos.row) THEN Pos(pos.row, pos.column + 1)
         ELSE IF pos.row + 1 < Len(ls) THEN Pos(pos.row + 1, 0)
         ELSE pos
    [] input = "Up" ->
         IF pos.row > 0
         THEN Pos(pos.row - 1, Min(pos.column, len(pos.row - 1)))
         ELSE pos
    [] input = "Down" ->
         IF pos.row + 1 < Len(ls)
         THEN Pos(pos.row + 1, Min(pos.column, len(pos.row + 1)))
         ELSE pos
    [] input = "Home" -> Pos(pos.row, 0)
    [] input = "End" -> Pos(pos.row, len(pos.row))
    [] OTHER -> pos

\* Selection::extend: the range from start to new_end, a single position
\* when the two are the same
extend(start, new_end) == IF start = new_end THEN <<>> ELSE <<start>>

\* handle_input(Up or Down, shift), no matrix being edited
handle_input_Shift(input) ==
  LET start == IF is_range THEN selection_start[1] ELSE cursor
      new_end == editor_move(input, lines, cursor)
  IN
  /\ pc = "idle"
  /\ matrix_editing = <<>>
  /\ new_end # cursor
  /\ prev_cursor_pos' = cursor
  /\ cursor' = new_end
  /\ selection_start' = extend(start, new_end)
  /\ modified' = FALSE
  /\ last_input' = "None"
  /\ normalized_content' = <<>>
  /\ last_op' = "handle_input"
  /\ UNCHANGED <<lines, line_reference_chooser, line_id_generator,
                 has_result_bitset, pc, render_locals, last_pass,
                 result_buffer, matrix_editing, editor_objects, edit_count>>

\* the step of Alt+Left taking a format back to where Alt+Right takes it
next_format_Left_reversed(result_format) ==
  CASE result_format = "Bin" -> "Dec"
    [] result_format = "Dec" -> "Hex"
    [] OTHER -> "Bin"

\* the new format of a row on Alt+Left
next_format_Left(result_format) ==
  CASE result_format = "Bin" -> "Hex"
    [] result_format = "Dec" -> "Bin"
    [] OTHER -> "Dec"

\* the new format of a row on Alt+Right
next_format_Right(result_format) ==
  CASE result_format = "Bin" -> "Dec"
    [] result_format = "Dec" -> "Hex"
    [] OTHER -> "Bin"

\* what Alt+Left and Alt+Right leave as they are
alt_format_frame(input) ==
  /\ modified' = FALSE
  /\ last_input' = "None"
  /\ last_pass' = NoPass
  /\ normalized_content' = <<>>
  /\ last_op' = "handle_input"
  /\ UNCHANGED <<cursor, line_reference_chooser, line_id_generator,
                 has_result_bitset, pc, render_locals, result_buffer,
                 selection_start, edit_locals>>

\* handle_input(Left, alt)
handle_input_AltLeft ==
  /\ pc = "idle"
  /\ matrix_editing = <<>>
  /\ lines' = [i \in 1..Len(lines) |->
                 IF i - 1 \in get_row_iter_incl
                 THEN [lines[i] EXCEPT !.result_format = next_format_Left(@)]
                 ELSE lines[i]]
  /\ alt_format_frame("Left")

\* handle_input(Right, alt)
handle_input_AltRight ==
  /\ pc = "idle"
  /\ matrix_editing = <<>>
  /\ lines' = [i \in 1..Len(lines) |->
                 IF i - 1 \in get_row_iter_incl
                 THEN [lines[i] EXCEPT !.result_format = next_format_Right(@)]
                 ELSE lines[i]]
  /\ alt_format_frame("Right")

\* the keys pressed without a modifier
MainKeys ==
  {"Left", "Right", "Up", "Down", "Home", "End", "Backspace", "Del", "Char"}

\* Editor::handle_input of the main editor for a key without modifier, the
\* selection being a single position
editor_handle_input(input) ==
  LET text == lines[cursor.row + 1].text IN
  IF input = "Backspace"
  THEN /\ cursor.column > 0
       /\ edit_count < MaxEdits
       /\ lines' = [lines EXCEPT ![cursor.row + 1].text =
                      DeleteRange(@, cursor.column - 1, cursor.column)]
       /\ cursor' = Pos(cursor.row, cursor.column - 1)
       /\ edit_count' = edit_count + 1
       /\ last_pass' = NoPass
       /\ modified' = TRUE
  ELSE IF input = "Del"
  THEN /\ cursor.column < Len(text)
       /\ edit_count < MaxEdits
       /\ lines' = [lines EXCEPT ![cursor.row + 1].text =
                      DeleteRange(@, cursor.column, cursor.column + 1)]
       /\ edit_count' = edit_count + 1
       /\ last_pass' = NoPass
       /\ modified' = TRUE
       /\ UNCHANGED cursor
  ELSE IF input = "Char"
  THEN /\ edit_count < MaxEdits
       /\ lines' = editor_insert_text(lines, cursor, <<TypedChar>>)
       /\ cursor' = Pos(cursor.row, cursor.column + 1)
       /\ edit_count' = edit_count + 1
       /\ last_pass' = NoPass
       /\ modified' = TRUE
  ELSE /\ cursor' = editor_move(input, lines, cursor)
       /\ modified' = FALSE
       /\ UNCHANGED <<lines, edit_count, last_pass>>

\* Backspace or Del on an editor object: the object leaves editor_objects,
\* its columns are selected and the key deletes the selection
remove_editor_object(index) ==
  LET obj == editor_objects[index] IN
  /\ editor_objects' = SubSeq(editor_objects, 1, index - 1)
                         \o SubSeq(editor_objects, index + 1,
                                   Len(editor_objects))
  /\ lines' = [lines EXCEPT ![obj.row + 1].text =
                 DeleteRange(@, obj.start_x, obj.end_x)]
  /\ cursor' = Pos(obj.row, obj.start_x)
  /\ last_pass' = NoPass
  /\ modified' = TRUE
  /\ UNCHANGED edit_count

\* handle_input(input, none), no matrix being edited, no range selected
handle_input_Key(input) ==
  LET with_prev_col == Pos(cursor.row, cursor.column - 1)
      at_prev == index_of_editor_object_at(with_prev_col)
      at_cursor == index_of_editor_object_at(cursor)
  IN
  /\ pc = "idle"
  /\ matrix_editing = <<>>
  /\ ~is_range
  /\ prev_cursor_pos' = cursor
  /\ normalized_content' = <<>>
  /\ last_op' = "handle_input"
  /\ last_input' = "None"
  /\ UNCHANGED <<line_reference_chooser, line_id_generator, has_result_bitset,
                 pc, render_locals, result_buffer, selection_start,
                 matrix_editing>>
  /\ IF input = "Backspace" /\ ~is_range /\ cursor.column > 0 /\ at_prev # 0
     THEN remove_editor_object(at_prev)
     ELSE IF input = "Del" /\ ~is_range /\ at_cursor # 0
     THEN remove_editor_object(at_cursor)
     ELSE IF /\ input = "Left" /\ ~is_range /\ cursor.column > 0
             /\ at_prev # 0
             /\ editor_objects[at_prev].typ = "LineReference"
     THEN /\ cursor' = Pos(editor_objects[at_prev].row,
                           editor_objects[at_prev].start_x)
          /\ modified' = FALSE
          /\ UNCHANGED <<lines, editor_objects, edit_count, last_pass>>
     ELSE IF /\ input = "Right" /\ ~is_range
             /\ at_cursor # 0
             /\ editor_objects[at_cursor].typ = "LineReference"
     THEN /\ cursor' = Pos(editor_objects[at_cursor].row,
                           editor_objects[at_cursor].end_x)
          /\ modified' = FALSE
          /\ UNCHANGED <<lines, editor_objects, edit_count, last_pass>>
     ELSE /\ editor_handle_input(input)
          /\ UNCHANGED editor_objects

\* ------------------------------------------------------------------------
\* The keys while a matrix is edited
\* ------------------------------------------------------------------------
mat_edit == matrix_editing[1]

\* MatrixEditing::save_editor_content
save_editor_content(m) ==
  [m EXCEPT !.cell_strings[CellIndex(m.col_count, m.current_cell)] =
              m.editor_content]

\* MatrixEditing::change_cell
change_cell(m, new_pos) ==
  LET saved == save_editor_content(m) IN
  [saved EXCEPT !.editor_content =
                  saved.cell_strings[CellIndex(m.col_count, new_pos)],
                !.current_cell = new_pos]

\* mat_edit.editor.set_cursor_pos_r_c(0, column)
set_cell_cursor(m, column) == [m EXCEPT !.editor_column = column]

\* ConcatCells with "," between any two cells
RECURSIVE ConcatCellsByComma(_, _)
ConcatCellsByComma(m, k) ==
  IF k >= m.row_count * m.col_count THEN <<>>
  ELSE (IF k = 0 THEN <<>> ELSE <<",">>)
         \o m.cell_strings[k + 1] \o ConcatCellsByComma(m, k + 1)

\* the cells from the k-th on in row-major order, ";" before the first cell
\* of a row and "," before the other cells, none before the very first
RECURSIVE ConcatCells(_, _)
ConcatCells(m, k) ==
  IF k >= m.row_count * m.col_count THEN <<>>
  ELSE (IF k = 0 THEN <<>>
        ELSE IF k % m.col_count = 0 THEN <<";">>
        ELSE <<",">>)
         \o m.cell_strings[k + 1] \o ConcatCells(m, k + 1)

\* end_matrix_editing(new_cursor_pos): the lines and the cursor it leaves
end_matrix_editing(new_cursor_pos) ==
  LET mat_editor == save_editor_content(mat_edit)
      concat == <<"[">> \o ConcatCells(mat_editor, 0) \o <<"]">>
      r == mat_editor.row_index + 1
      deleted == DeleteRange(lines[r].text, mat_editor.start_text_index,
                             mat_editor.end_text_index)
      at == Min(mat_editor.start_text_index, Len(deleted))
  IN [lines |-> [lines EXCEPT ![r].text = InsertAt(deleted, at, concat)],
      cursor |-> IF new_cursor_pos = None
                 THEN Pos(mat_editor.row_index, at + Len(concat))
                 ELSE new_cursor_pos]

\* cell_cursor_after_left putting the cursor at the start of the cell
cell_cursor_after_left_at_start(m) == 0

\* the cell cursor after Left has moved to the cell: the end of its text
cell_cursor_after_left(m) == Len(m.editor_content)

\* next_cell_by_tab staying in the row of the cell
next_cell_by_tab_in_row(m) ==
  IF m.current_cell.column + 1 < m.col_count
  THEN Pos(m.current_cell.row, m.current_cell.column + 1)
  ELSE None

\* the cell Tab moves to, None when Tab ends the edit
next_cell_by_tab(m) ==
  IF m.current_cell.column + 1 < m.col_count
  THEN Pos(m.current_cell.row, m.current_cell.column + 1)
  ELSE IF m.current_cell.row + 1 < m.row_count
  THEN Pos(m.current_cell.row + 1, 0)
  ELSE None

\* column_from_right keeping the column the cursor had
column_from_right_same_column(cols_from_right, cell_len, column) ==
  Min(column, cell_len)

\* the cell cursor's column after Up or Down: as far from the end of the
\* new cell as it was from the end of the old one
column_from_right(cols_from_right, cell_len, column) ==
  cell_len - Min(cols_from_right, cell_len)

\* the keys pressed while a matrix is edited
MatrixKeys ==
  {"Esc", "Enter", "Left", "Right", "Up", "Down", "End", "Home", "Tab", "Char"}

\* handle_input(input, none) while a matrix is edited:
\* handle_matrix_editor_input
handle_matrix_editor_input(input) ==
  LET m == mat_edit
      cell == m.current_cell
      cell_len == Len(m.editor_content)
      with_column(c) == Pos(cursor.row, c)
      \* the edit ends; key is the key the main editor then handles
      ends(new_cursor_pos, key) ==
        LET e == end_matrix_editing(new_cursor_pos) IN
        /\ lines' = e.lines
        /\ cursor' = editor_move(key, e.lines, e.cursor)
        /\ matrix_editing' = <<>>
        /\ selection_start' = <<>>
        /\ last_pass' = NoPass
        /\ UNCHANGED edit_count
      stays(new_m) ==
        /\ matrix_editing' = <<new_m>>
        /\ UNCHANGED <<lines, cursor, selection_start, last_pass, edit_count>>
      \* the cell's cursor after Up or Down
      vertical(new_pos) ==
        LET cols_from_right == cell_len - m.editor_column
            moved == change_cell(m, new_pos)
            new_len == Len(moved.editor_content)
        IN stays(set_cell_cursor(moved,
                                 column_from_right(cols_from_right, new_len,
                                                   m.editor_column)))
  IN
  /\ pc = "idle"
  /\ matrix_editing # <<>>
  /\ modified' = TRUE
  /\ normalized_content' = <<>>
  /\ last_op' = "handle_input"
  /\ last_input' = input
  /\ UNCHANGED <<line_reference_chooser, line_id_generator, has_result_bitset,
                 pc, render_locals, result_buffer, prev_cursor_pos,
                 editor_objects>>
  /\ IF input = "Esc" \/ input = "Enter"
     THEN ends(None, "None")
     ELSE IF input = "Left" /\ m.editor_column = 0
     THEN IF cell.column > 0
          THEN LET moved == change_cell(m, Pos(cell.row, cell.column - 1)) IN
               stays(set_cell_cursor(moved, cell_cursor_after_left(moved)))
          ELSE ends(with_column(m.start_text_index), "None")
     ELSE IF input = "Right" /\ m.editor_column = cell_len
     THEN IF cell.column + 1 < m.col_count
          THEN stays(set_cell_cursor(
                       change_cell(m, Pos(cell.row, cell.column + 1)), 0))
          ELSE ends(with_column(m.end_text_index), "None")
     ELSE IF input = "Up"
     THEN IF cell.row > 0
          THEN vertical(Pos(cell.row - 1, cell.column))
          ELSE ends(None, input)
     ELSE IF input = "Down"
     THEN IF cell.row + 1 < m.row_count
          THEN vertical(Pos(cell.row + 1, cell.column))
          ELSE ends(None, input)
     ELSE IF input = "End"
     THEN IF cell.column # m.col_count - 1
          THEN LET moved == change_cell(m, Pos(cell.row, m.col_count - 1)) IN
               stays(set_cell_cursor(moved, Len(moved.editor_content)))
          ELSE ends(with_column(m.end_text_index), input)
     ELSE IF input = "Home"
     THEN IF cell.column # 0
          THEN stays(set_cell_cursor(change_cell(m, Pos(cell.row, 0)), 0))
          ELSE ends(with_column(m.start_text_index), input)
     ELSE IF input = "Tab"
     THEN IF next_cell_by_tab(m) # None
          THEN stays(set_cell_cursor(change_cell(m, next_cell_by_tab(m)), 0))
          ELSE ends(with_column(m.end_text_index), "None")
     ELSE \* the cell's editor handles the key
          IF input = "Left"
          THEN stays(set_cell_cursor(m, m.editor_column - 1))
          ELSE IF input = "Right"
          THEN stays(set_cell_cursor(m, m.editor_column + 1))
          ELSE /\ edit_count < MaxEdits
               /\ matrix_editing' =
                    <<[m EXCEPT !.editor_content =
                                  InsertAt(@, m.editor_column, <<TypedChar>>),
                                !.editor_column = @ + 1]>>
               /\ edit_count' = edit_count + 1
               /\ UNCHANGED <<lines, cursor, selection_start, last_pass>>

\* ------------------------------------------------------------------------
\* Specification
\* ------------------------------------------------------------------------
Next ==
  \/ \E doc \in NormalizedDocs : set_normalized_content(doc)
  \/ \E t \in InputTexts : handle_input_Text(t)
  \/ handle_input_AltUp
  \/ handle_input_AltDown
  \/ alt_key_released
  \/ get_normalized_content
  \/ RenderStart
  \/ RenderLine
  \/ RenderEnd

Spec == Init /\ [][Next]_vars_all

\* what a step of render (RenderLine or RenderEnd) does to pc and row
RenderProgress ==
  /\ pc = "lines"
  /\ \/ row' = row + 1 /\ pc' = "lines"
     \/ row' = 0 /\ pc' = "idle"

\* render is one synchronous call: once it has started, its loop and its
\* end run without waiting for anything
FairSpec == Spec /\ WF_<<pc, row>>(RenderProgress)

\* the display formats: a document is typed, the selection is extended over
\* its rows and Alt+Left, Alt+Right change the formats between the passes
ShiftKeys == {"Up", "Down"}

FormatNext ==
  \/ \E t \in FormatTexts : handle_input_Text(t)
  \/ \E input \in ShiftKeys : handle_input_Shift(input)
  \/ handle_input_AltLeft
  \/ handle_input_AltRight
  \/ RenderStart
  \/ RenderLine
  \/ RenderEnd

FormatSpec == Init /\ [][FormatNext]_vars_all

\* the keys: a document with a matrix is typed or one with a line reference
\* is loaded into the new app, then keys are pressed between the passes
EditNext ==
  \/ \E t \in EditTexts : handle_input_Text(t)
  \/ IsEmptyDocument /\ set_normalized_content(ReferenceDoc)
  \/ \E input \in MainKeys : handle_input_Key(input)
  \/ \E input \in ShiftKeys : handle_input_Shift(input)
  \/ \E input \in MatrixKeys : handle_matrix_editor_input(input)
  \/ RenderStart
  \/ RenderLine
  \/ RenderEnd

EditSpec == Init /\ [][EditNext]_vars_all

\* the keys pressed around a load: the cursor keys of the main editor
ArrowKeys == {"Left", "Right", "Up", "Down"}

\* the keys pressed in a cell: one that edits it and those that commit the
\* edit where the cursor of the main editor is
CommitKeys == {"Char", "Esc", "Enter"}

\* the operations of the app in any order: the document of EditTexts is
\* typed, MovedDoc is loaded at any time, also while a matrix is edited,
\* keys are pressed in the main editor and in a cell, between the passes
InterleaveNext ==
  \/ \E t \in EditTexts : handle_input_Text(t)
  \/ set_normalized_content(MovedDoc)
  \/ \E input \in ArrowKeys : handle_input_Key(input)
  \/ \E input \in CommitKeys : handle_matrix_editor_input(input)
  \/ RenderStart
  \/ RenderLine
  \/ RenderEnd

InterleaveSpec == Init /\ [][InterleaveNext]_vars_all

\* the passes over the documents of SumDocs, typed (lines without a stable
\* id) or loaded (every line with a stable id)
SumNext ==
  \/ \E t \in SumDocs : handle_input_Text(t)
  \/ \E doc \in SumDocs : set_normalized_content(doc)
  \/ RenderStart
  \/ RenderLine
  \/ RenderEnd

SumSpec == Init /\ [][SumNext]_vars_all

\* ========================================================================
\* Properties
\* ========================================================================
InPass == pc = "lines"
AtLine == pc = "lines" /\ row < PassLength
CurText == lines[row + 1].text
CurEval == evaluate_tokens(CurText, vars)
Sum == vars[SUM_VARIABLE_INDEX + 1].val

\* the line render is at is evaluated and has a result
Produces == AtLine /\ ~IsTextLine(CurText) /\ CurEval # None

\* ... and the result cannot be added to the running sum
Incompatible ==
  Produces /\ ~sum_is_null /\ add_op(Sum, CurEval.result) = None

AssignsTo(text, name) ==
  ~IsTextLine(text) /\ IsAssignmentShape(text) /\ var_name(text) = name

\* the visited line j (1-based) had a result the running sum could not take
IncompatibleAt(j) ==
  /\ results[j] # None
  /\ ~sum_log[j].is_null
  /\ add_op(sum_log[j].sum, results[j]) = None

\* ------------------------------------------------------------------------
\* C1 as stated: a line whose result is incompatible with the running sum
\* leaves the sum accumulator as it was before the line.
C1_SumUnchanged ==
  [][Incompatible => vars'[SUM_VARIABLE_INDEX + 1].val = Sum]_vars_all

\* C1 amended: a line whose result is incompatible with the running sum
\* resets the sum accumulator to zero (the previous sum is dropped together
\* with the line's contribution) and sum_is_null stays false; only a line
\* that assigns to `sum` leaves its own value in the accumulator.
C1_SumZeroed ==
  [][Incompatible =>
       /\ vars'[SUM_VARIABLE_INDEX + 1].val =
            IF AssignsTo(CurText, SumName) THEN CurEval.result ELSE Zero
       /\ sum_is_null' = FALSE]_vars_all

\* an anonymous unitless line has just met a sum that carries a unit
C1_Witness ==
  /\ InPass
  /\ row >= 2
  /\ IncompatibleAt(row)
  /\ sum_log[row].sum.kind = "Number"
  /\ sum_log[row].sum.unit # 0
  /\ ~AssignsTo(lines[row].text, SumName)
  /\ Sum = Zero

C3_SumZeroAfterReset ==
  InPass =>
    \A j \in 1..(row - 1) :
      (lines[j].text = T_sep /\ lines[j + 1].text = T_sum)
        => results[j + 1] = Zero

\* ------------------------------------------------------------------------
\* the visited lines a..b (1-based) that have a result, in order
RECURSIVE ResultsOf(_, _)
ResultsOf(a, b) ==
  IF a > b THEN <<>>
  ELSE IF results[b] # None THEN Append(ResultsOf(a, b - 1), results[b])
  ELSE ResultsOf(a, b - 1)

\* r1 + ... + rk, None when k = 0 or an addition fails
RECURSIVE Total(_)
Total(rs) ==
  IF rs = <<>> THEN None
  ELSE IF Len(rs) = 1 THEN rs[1]
  ELSE LET t == Total(SubSeq(rs, 1, Len(rs) - 1)) IN
       IF t = None THEN None ELSE add_op(t, rs[Len(rs)])

IsMarker(j) == starts_with(lines[j].text, <<"-", "-">>)

\* s is the last marker line before the visited line k
LastMarkerBefore(s, k) ==
  /\ s < k
  /\ IsMarker(s)
  /\ \A j \in (s + 1)..(k - 1) : ~IsMarker(j)

AssignsSumBetween(s, k) ==
  \E j \in (s + 1)..(k - 1) :
    results[j] # None /\ AssignsTo(lines[j].text, SumName)

C5_FailedLineChangesNothing ==
  [][(AtLine /\ ~IsTextLine(CurText) /\ CurEval = None) =>
       /\ results' = Append(results, None)
       /\ vars' = vars
       /\ sum_is_null' = sum_is_null
       /\ has_result_bitset' = has_result_bitset
       /\ pc' = "lines"
       /\ row' = row + 1]_vars_all

\* a failed line has been passed with a nonzero sum, and the line after it
\* has been evaluated
C5_Witness ==
  /\ InPass
  /\ \E j \in 2..(row - 1) :
       /\ ~IsTextLine(lines[j].text)
       /\ results[j] = None
       /\ sum_log[j].sum # Zero
       /\ sum_log[j + 1] = sum_log[j]
       /\ results[j + 1] # None

\* ------------------------------------------------------------------------
\* the visited line j assigned to name, and no visited line between j and k
\* did
LastAssignmentBefore(j, k, name) ==
  /\ j < k
  /\ results[j] # None
  /\ AssignsTo(lines[j].text, name)
  /\ \A i \in (j + 1)..(k - 1) :
       ~(results[i] # None /\ AssignsTo(lines[i].text, name))

Names == {SumName, <<"x">>}

\* C6 as stated: after `name = expr` has evaluated to v, a later line
\* that reads `name` sees v until a later assignment to the name.
C6_AssignedValueRead ==
  InPass =>
    \A name \in Names : \A k \in 1..row : \A j \in 1..row :
      (Trim(lines[k].text) = name /\ LastAssignmentBefore(j, k, name))
        => results[k] = results[j]

\* C6 amended: ... for every name other than `sum` ...
\* and the table holds v under the name while render is at such a line.
C6_AssignedValueReadExceptSum ==
  InPass =>
    \A name \in Names \ {SumName} : \A j \in 1..row :
      /\ \A k \in 1..row :
           (Trim(lines[k].text) = name /\ LastAssignmentBefore(j, k, name))
             => results[k] = results[j]
      /\ LastAssignmentBefore(j, row + 1, name)
           => \E i \in 1..Len(vars) :
                vars[i].name = name /\ vars[i].val = results[j]

\* x = 2, x = 5, x: the line `x` has reported the 5 of the second assignment
C6_Witness ==
  /\ InPass
  /\ row = 3
  /\ AssignsTo(lines[1].text, <<"x">>)
  /\ results[1] = Number(2, 0)
  /\ LastAssignmentBefore(2, 3, <<"x">>)
  /\ lines[3].text = T_x
  /\ results[3] = Number(5, 0)

\* ------------------------------------------------------------------------
\* C7: while render is at row i, every name of the variable table is `sum`,
\* a variable assigned by a line before row i or the stable id of a line
\* before row i.
C7_NoForwardReferences ==
  InPass =>
    \A i \in 1..Len(vars) :
      \/ vars[i].name = SumName
      \/ \E j \in 1..row :
           /\ results[j] # None
           /\ \/ AssignsTo(lines[j].text, vars[i].name)
              \/ /\ lines[j].line_id # 0
                 /\ vars[i].name = STATIC_LINE_IDS(lines[j].line_id)

\* 4, x, x = 5, x: render is at the first line `x`, the table holds the
\* id of the line above, and x is assigned only further down
C7_Witness ==
  /\ AtLine
  /\ Len(vars) >= 2
  /\ Trim(CurText) = <<"x">>
  /\ position(vars, <<"x">>) = 0
  /\ \E j \in (row + 2)..Len(lines) : AssignsTo(lines[j].text, <<"x">>)

\* ------------------------------------------------------------------------
\* C8 as stated: every visited line that has a stable id and a result has
\* its id in the variable table, with that result.
C8_EveryIdRegistered ==
  InPass =>
    \A j \in 1..row :
      (lines[j].line_id # 0 /\ results[j] # None)
        => \E i \in 1..Len(vars) :
             /\ vars[i].name = STATIC_LINE_IDS(lines[j].line_id)
             /\ vars[i].val = results[j]

\* ------------------------------------------------------------------------
DistinctNames(vs) ==
  \A i \in 1..Len(vs) : \A j \in 1..Len(vs) :
    vs[i].name = vs[j].name => i = j

\* C9: during a pass the variable table has `sum` first and distinct names;
\* a line keeps the names that are in the table at their indexes, adds at
\* most one name, at the end, and an assignment to a name of the table
\* changes the value at that name's index only (besides the sum's).
C9_TableShape ==
  [][(pc' = "lines") =>
       /\ vars'[SUM_VARIABLE_INDEX + 1].name = SumName
       /\ DistinctNames(vars')
       /\ AtLine =>
            /\ Len(vars) <= Len(vars') /\ Len(vars') <= Len(vars) + 1
            /\ \A i \in 1..Len(vars) : vars'[i].name = vars[i].name
            /\ (Produces /\ CurEval.assignment
                  /\ position(vars, var_name(CurText)) # 0)
                 => /\ Len(vars') = Len(vars)
                    /\ vars'[position(vars, var_name(CurText))].val
                         = CurEval.result
                    /\ \A i \in 2..Len(vars) :
                         i # position(vars, var_name(CurText))
                           => vars'[i] = vars[i]
            /\ (Produces /\ CurEval.assignment
                  /\ position(vars, var_name(CurText)) = 0)
                 => vars' = Append([vars EXCEPT ![1].val = vars'[1].val],
                                   Var(var_name(CurText), CurEval.result))
     ]_vars_all

\* x has been assigned a second time, behind the id of another line
C9_Witness ==
  /\ InPass
  /\ Len(vars) >= 3
  /\ \E j \in 1..row : \E k \in 1..row :
       /\ j < k
       /\ results[j] # None /\ AssignsTo(lines[j].text, <<"x">>)
       /\ results[k] # None /\ AssignsTo(lines[k].text, <<"x">>)
       /\ results[j] # results[k]
       /\ vars[position(vars, <<"x">>)].val = results[k]

\* ------------------------------------------------------------------------
\* C10: a pass over the document the pass before it saw gives the same
\* results, the same has-result bits and the same final variable table.
C10_Idempotent ==
  (pc = "lines" /\ row >= PassLength /\ last_pass.valid) =>
    /\ results = last_pass.results
    /\ has_result_bitset = last_pass.bits
    /\ vars = last_pass.vars

\* a second pass over an unchanged document with typed lines, of which one
\* failed, has finished its loop after an earlier pass over another document
C10_Witness ==
  /\ pc = "lines"
  /\ row >= PassLength
  /\ last_pass.valid
  /\ Len(results) >= 2
  /\ \E j \in 1..Len(results) : results[j] # None /\ lines[j].line_id = 0
  /\ Len(vars) >= 2

\* ------------------------------------------------------------------------
\* render has just returned
Rendered == pc = "idle" /\ last_op = "render"

\* C11 as stated: after every render the result buffer holds the result
\* strings of that pass one after the other and then a zero byte: no byte
\* of an earlier pass is left after the last result.  (The buffer is kept
\* up to its last written byte, so a zero byte follows the results exactly
\* when the buffer ends with them.)
C11_BufferHoldsLatestPassOnly ==
  Rendered => result_buffer = ResultBytes(last_pass.results, lines, 1)

\* ------------------------------------------------------------------------
\* C12: a pass is one sweep from the first line down that ends after at
\* most 64 lines; every visited line appends exactly one entry to the
\* results, so entry i is the one of line i (a result exactly when the
\* line's has-result bit is set, never for a line shown as text) and the
\* finished pass has min(line_count, 64) entries.
C12_SingleBoundedSweep ==
  /\ [][pc = "lines" /\ pc' = "lines" =>
          /\ row' = row + 1
          /\ Len(results') = Len(results) + 1
          /\ SubSeq(results', 1, Len(results)) = results]_vars_all
  /\ [](pc = "lines" =>
          /\ Len(results) = row
          /\ row <= Min(line_count, MAX_LINE_COUNT)
          /\ \A i \in 1..row :
               /\ results[i] # None <=> (i - 1) \in has_result_bitset
               /\ IsTextLine(lines[i].text) => results[i] = None)
  /\ [](Rendered =>
          Len(last_pass.results) = Min(line_count, MAX_LINE_COUNT))
  /\ (pc = "lines" ~> pc = "idle")

\* the loop has ended at line 64 of a document of 65 lines
C12_Witness ==
  /\ pc = "lines"
  /\ line_count = MAX_LINE_COUNT + 1
  /\ row = MAX_LINE_COUNT
  /\ Len(results) = MAX_LINE_COUNT
  /\ results[MAX_LINE_COUNT] # None

\* ------------------------------------------------------------------------
\* the step is a call of set_normalized_content
Loads == last_op' = "set_normalized_content"

\* the step is a call of alt_key_released that returns
Releases == last_op' = "alt_key_released" /\ pc' = "idle"

\* C13 as stated: over every operation the line-id counter is afterwards
\* at least what it was before, and it is larger only when a line holds a
\* new stable id (one the counter had not passed before).
C13_CounterNeverDecreases ==
  [][/\ line_id_generator' >= line_id_generator
     /\ line_id_generator' > line_id_generator
          => \E r \in 1..Len(lines') :
               lines'[r].line_id >= line_id_generator]_vars_all

\* C13 amended: over alt_key_released, handle_input, get_normalized_content
\* and render the counter never decreases, and it grows, by exactly one,
\* only when alt_key_released gives a line without a stable id the old
\* counter value as its id; set_normalized_content sets the counter to
\* line_count + 1, whatever it was before.
C13_CounterGrowsByAssignmentOnly ==
  [][IF Loads
     THEN line_id_generator' = Len(lines') + 1
     ELSE /\ line_id_generator' >= line_id_generator
          /\ line_id_generator' > line_id_generator
               => /\ line_id_generator' = line_id_generator + 1
                  /\ Releases
                  /\ \E r \in 1..Len(lines) :
                       /\ lines[r].line_id = 0
                       /\ lines'[r].line_id = line_id_generator]_vars_all

\* alt_key_released has just given a typed line the id 1; another line has
\* no id yet
C13_Witness ==
  /\ pc = "idle"
  /\ last_op = "alt_key_released"
  /\ line_id_generator = 2
  /\ \E r \in 1..Len(lines) : lines[r].line_id = 1
  /\ \E q \in 1..Len(lines) : lines[q].line_id = 0

\* ------------------------------------------------------------------------
\* C14: no two lines hold the same nonzero stable id and the line-id
\* counter is larger than every id a line holds.
C14_IdsDistinctBelowCounter ==
  \A r \in 1..Len(lines) :
    /\ lines[r].line_id < line_id_generator
    /\ \A q \in 1..Len(lines) :
         (q # r /\ lines[r].line_id # 0)
           => lines[q].line_id # lines[r].line_id

\* two typed lines got their ids from alt_key_released, one after the
\* other, a third line has none
C14_Witness ==
  /\ last_op = "alt_key_released"
  /\ \E r, q, z \in 1..Len(lines) :
       /\ lines[r].line_id = 1
       /\ lines[q].line_id = 2
       /\ lines[z].line_id = 0
  /\ line_id_generator = 3

\* ------------------------------------------------------------------------
\* C15: a stable id is assigned once.  Outside set_normalized_content an id
\* a line holds stays in the document; alt_key_released, when it inserts,
\* gives the chosen line the counter value and moves the counter by one
\* only if the line's id is 0, else keeps both, changes the id of no other
\* line, and inserts `&[id]` with that id at the cursor.
C15_IdAssignedOnce ==
  [][/\ ~Loads =>
          \A r \in 1..Len(lines) :
            lines[r].line_id # 0 =>
              \E q \in 1..Len(lines') :
                lines'[q].line_id = lines[r].line_id
     /\ (Releases /\ lines' # lines) =>
          LET r == line_reference_chooser[1] + 1
              c == cursor.row + 1
              fresh == lines[r].line_id = 0
          IN /\ lines'[r].line_id =
                  IF fresh THEN line_id_generator ELSE lines[r].line_id
             /\ line_id_generator' =
                  IF fresh THEN line_id_generator + 1 ELSE line_id_generator
             /\ \A q \in 1..Len(lines) :
                  q # r => lines'[q].line_id = lines[q].line_id
             /\ lines'[c].text =
                  InsertAt(lines[c].text, cursor.column,
                           LineRefText(lines'[r].line_id))]_vars_all

\* the same line has been referred to twice: the text is `&[1]&[1]` and the
\* counter has moved once
C15_Witness ==
  /\ last_op = "alt_key_released"
  /\ line_id_generator = 2
  /\ \E c \in 1..Len(lines) : lines[c].text = T_ref1 \o T_ref1

\* ------------------------------------------------------------------------
\* get_normalized_content has just returned
Normalized == normalized_content # <<>>

\* the number of the reference-shaped text &[<digits>] at i, 0 when the
\* text at i has not that shape
ReferenceAt(line, i) ==
  LET e == RefShapeEnd(line, i) IN
  IF e = 0 THEN 0 ELSE DecValue(SubSeq(line, i + 2, e - 1))

\* `&[<row>]`, the row counted from 1, of the line that holds the stable
\* id; `&[1]` when no line holds it
RowReference(id) ==
  LET holders == {r \in 1..Len(lines) : lines[r].line_id = id}
      first == IF holders = {} THEN 1
               ELSE CHOOSE r \in holders : \A q \in holders : r <= q
  IN <<"&", "[">> \o DecDigits(first) \o <<"]">>

RECURSIVE RewriteReferences(_, _)
RewriteReferences(line, i) ==
  IF i > Len(line) THEN <<>>
  ELSE IF ReferenceAt(line, i) > 0
  THEN RowReference(ReferenceAt(line, i))
         \o RewriteReferences(line, RefShapeEnd(line, i) + 1)
  ELSE <<line[i]>> \o RewriteReferences(line, i + 1)

RECURSIVE RewrittenLines(_)
RewrittenLines(r) ==
  IF r > Len(lines) THEN <<>>
  ELSE RewriteReferences(lines[r].text, 1) \o <<"\n">> \o RewrittenLines(r + 1)

ReferencesIn(line) ==
  {ReferenceAt(line, i) : i \in 1..Len(line)} \ {0}

\* `&[<id>]` of the stable id the line at 1-based row n holds
StableIdReference(n) == <<"&", "[">> \o DecDigits(lines[n].line_id) \o <<"]">>

RECURSIVE RewriteRows(_, _)
RewriteRows(line, i) ==
  IF i > Len(line) THEN <<>>
  ELSE IF ReferenceAt(line, i) \in 1..Len(lines)
  THEN StableIdReference(ReferenceAt(line, i))
         \o RewriteRows(line, RefShapeEnd(line, i) + 1)
  ELSE <<line[i]>> \o RewriteRows(line, i + 1)

RECURSIVE RowsRewrittenLines(_)
RowsRewrittenLines(r) ==
  IF r > Len(lines) THEN <<>>
  ELSE RewriteRows(lines[r].text, 1) \o <<"\n">> \o RowsRewrittenLines(r + 1)

RECURSIVE LinesOf(_)
LinesOf(text) ==
  LET p == IndexOf(text, "\n", 1) IN
  IF p = 0 THEN <<>>
  ELSE <<SubSeq(text, 1, p - 1)>> \o LinesOf(SubSeq(text, p + 1, Len(text)))

ends_with(line, suffix) ==
  /\ Len(line) >= Len(suffix)
  /\ SubSeq(line, Len(line) - Len(suffix) + 1, Len(line)) = suffix

Loaded == pc = "idle" /\ last_op = "set_normalized_content"

\* every line holds its 1-based row as its stable id
IdsAreRows == \A i \in 1..Len(lines) : lines[i].line_id = i

\* C18: after set_normalized_content the line at row i holds the stable id
\* i + 1, the counter is line_count + 1 and the cursor is at row 0, column
\* 0; so the id k is held by the line at row k - 1 and by no other, and a
\* reference `&[k]` that yields a result in a pass over the loaded document
\* yields the result of that line.
C18_LoadedIdsAreRows ==
  /\ Loaded =>
       /\ IdsAreRows
       /\ line_id_generator = line_count + 1
       /\ cursor = Pos(0, 0)
       /\ \A k \in 1..line_count :
            {r \in 1..line_count : lines[r].line_id = k} = {k}
  /\ (InPass /\ IdsAreRows) =>
       \A r \in 1..row : \A k \in 1..(r - 1) :
         (lines[r].text = LineRefText(k) /\ results[r] # None)
           => results[r] = results[k]

\* a pass over the loaded document "4", "&[1]" has given the second line
\* the result of the first
C18_Witness ==
  /\ InPass
  /\ lines = <<LineData(T_4, 1), LineData(T_ref1, 2)>>
  /\ line_id_generator = 3
  /\ cursor = Pos(0, 0)
  /\ results = <<Number(4, 0), Number(4, 0)>>

\* ------------------------------------------------------------------------
\* C19 as stated: alt_key_released returns with the chooser unset; it has
\* inserted a reference only if the chooser was set to an existing row
\* other than the cursor's whose has-result bit of the latest pass is set,
\* and else it has changed no text, no stable id and not the counter.
C19_ReferenceOnlyToResultRow ==
  [][last_op' = "alt_key_released" =>
       /\ pc' = "idle"
       /\ line_reference_chooser' = <<>>
       /\ IF lines' # lines
          THEN /\ line_reference_chooser # <<>>
               /\ line_reference_chooser[1] < line_count
               /\ line_reference_chooser[1] # cursor.row
               /\ line_reference_chooser[1] \in has_result_bitset
               /\ \E id \in 1..line_id_generator :
                    lines'[cursor.row + 1].text =
                      InsertAt(lines[cursor.row + 1].text, cursor.column,
                               LineRefText(id))
          ELSE line_id_generator' = line_id_generator]_vars_all

\* ------------------------------------------------------------------------
\* the pass has visited every line it visits
PassDone == pc = "lines" /\ row >= Min(line_count, MAX_LINE_COUNT)

\* a comment (a line shown as text) or a blank line
CommentOrBlank(line) == IsTextLine(line) \/ Trim(line) = <<>>

\* what the pass gives out for the visited line i
OutputOf(i) == <<results[i], (i - 1) \in has_result_bitset>>

\* C20 as stated: a line that is a comment or blank and a line that failed
\* to evaluate give different output of the pass (result entry and
\* has-result bit).
C20_FailureDiffersFromComment ==
  PassDone =>
    \A i, j \in 1..row :
      (/\ CommentOrBlank(lines[i].text)
       /\ ~CommentOrBlank(lines[j].text)
       /\ results[j] = None)
        => OutputOf(i) # OutputOf(j)

\* ------------------------------------------------------------------------
\* the line render is at begins with `'`, or with `--`
AtQuoteLine == AtLine /\ starts_with(CurText, <<"'">>)
AtDashLine == AtLine /\ starts_with(CurText, <<"-", "-">>)

\* C21: a line beginning with `'` or `--` is not tokenized or evaluated,
\* whatever follows the prefix: its result is absent, its has-result bit
\* stays clear and the variable table is left as it was; a `'` line also
\* leaves the sum accumulator and sum_is_null as they were.
C21_TextLineChangesNothing ==
  [][(AtQuoteLine \/ AtDashLine) =>
       /\ results' = Append(results, None)
       /\ row \notin has_result_bitset'
       /\ has_result_bitset' = has_result_bitset
       /\ vars' = vars
       /\ AtQuoteLine => sum_is_null' = sum_is_null]_vars_all

\* 4, 'x=5: the pass has gone over the `'` line; x is not declared and the
\* sum is still the 4 of the first line
C21_Witness ==
  /\ InPass
  /\ row = 2
  /\ lines[2].text = T_qx5
  /\ results = <<Number(4, 0), None>>
  /\ has_result_bitset = {0}
  /\ position(vars, T_x) = 0
  /\ Sum = Number(4, 0)
  /\ ~sum_is_null

\* ------------------------------------------------------------------------
\* render's loop is over and render_results runs
RenderReturns == pc = "lines" /\ pc' = "idle"

IsMatrixResult(res) == res # None /\ res.kind = "Matrix"

\* the texts of the scalar results among res[1..n], in order
RECURSIVE ScalarTexts(_, _)
ScalarTexts(res, n) ==
  IF n = 0 THEN <<>>
  ELSE ScalarTexts(res, n - 1)
         \o (IF res[n] # None /\ res[n].kind = "Number"
             THEN render_result(res[n]) ELSE <<>>)

IsMatrixLiteral(text) == text # <<>> /\ MatrixAt(text, 1).end = Len(text)

\* C22: a line whose result is a matrix writes nothing to the scalar result
\* buffer: a pass writes the texts of its scalar results and leaves the
\* rest of the buffer as it was, so a pass without a scalar result leaves
\* the whole buffer as it was (empty, if it was empty); in a document
\* whose first line is a matrix literal and whose second line is `sum`
\* both lines have matrix results.
C22_MatrixWritesNothing ==
  [][RenderReturns =>
       LET written == ScalarTexts(results, Len(results)) IN
       /\ Len(result_buffer') >= Len(written)
       /\ SubSeq(result_buffer', 1, Len(written)) = written
       /\ SubSeq(result_buffer', Len(written) + 1, Len(result_buffer'))
            = SubSeq(result_buffer, Len(written) + 1, Len(result_buffer))
       /\ (\A j \in 1..Len(results) :
             results[j] = None \/ IsMatrixResult(results[j]))
            => result_buffer' = result_buffer
       /\ (/\ Len(lines) = 2
           /\ IsMatrixLiteral(lines[1].text)
           /\ lines[2].text = T_sum)
            => /\ IsMatrixResult(results[1])
               /\ IsMatrixResult(results[2])]_vars_all

\* [1,2,3], sum: the pass is over, both lines have the matrix as their
\* result and the result buffer is empty
C22_Witness ==
  /\ pc = "idle"
  /\ last_pass.valid
  /\ Len(lines) = 2
  /\ lines[1].text = T_m123
  /\ lines[2].text = T_sum
  /\ last_pass.results
       = <<Matrix(1, 3, <<Number(1, 0), Number(2, 0), Number(3, 0)>>),
           Matrix(1, 3, <<Number(1, 0), Number(2, 0), Number(3, 0)>>)>>
  /\ last_pass.bits = {0, 1}
  /\ result_buffer = <<>>

\* ------------------------------------------------------------------------
\* Display formats
\* ------------------------------------------------------------------------
\* the rows the selection covers
CoveredRows ==
  IF selection_start = <<>> THEN {cursor.row}
  ELSE {r \in 0..(Len(lines) - 1) :
          \/ selection_start[1].row <= r /\ r <= cursor.row
          \/ cursor.row <= r /\ r <= selection_start[1].row}

FormatCycle == <<"Dec", "Bin", "Hex">>

\* the format k steps after a format in the cycle Dec -> Bin -> Hex -> Dec
StepsAfter(result_format, k) ==
  LET i == CHOOSE j \in 1..3 : FormatCycle[j] = result_format IN
  FormatCycle[((i - 1 + k) % 3) + 1]

\* a step changes the formats of the covered rows by k steps of the cycle
\* and nothing else of the document, and reports no modification
FormatsStepped(k) ==
  /\ Len(lines') = Len(lines)
  /\ \A i \in 1..Len(lines) :
       /\ lines'[i].text = lines[i].text
       /\ lines'[i].line_id = lines[i].line_id
       /\ lines'[i].result_format =
            IF i - 1 \in CoveredRows
            THEN StepsAfter(lines[i].result_format, k)
            ELSE lines[i].result_format
  /\ modified' = FALSE
  /\ UNCHANGED <<cursor, selection_start>>

\* the text of 2, 4 and 5 in a format
TextIn(line, result_format) ==
  IF result_format # "Bin" THEN line
  ELSE CASE line = T_2 -> <<"1", "0">>
         [] line = T_4 -> <<"1", "0", "0">>
         [] OTHER -> <<"1", "0", "1">>

RECURSIVE TextsIn(_, _)
TextsIn(data, i) ==
  IF i > Len(data) THEN <<>>
  ELSE TextIn(data[i].text, data[i].result_format) \o TextsIn(data, i + 1)

\* C23: with no matrix being edited, Alt+Left moves the display format of
\* exactly the rows the selection covers one step along Dec -> Bin -> Hex
\* -> Dec and Alt+Right one step the opposite way; the text, the line ids,
\* the formats of the other rows and the selection stay, no modification is
\* reported, and the pass that follows writes every result of the lines 2,
\* 4, 5 in the base of its line's format (10, 100, 101 in binary).
C23_AltLeftRightStepFormats ==
  [][/\ (matrix_editing = <<>> /\ handle_input_AltLeft) => FormatsStepped(1)
     /\ (matrix_editing = <<>> /\ handle_input_AltRight) => FormatsStepped(2)
     /\ (RenderReturns /\ Len(lines) = 3) =>
          /\ Len(result_buffer') >= Len(TextsIn(lines, 1))
          /\ SubSeq(result_buffer', 1, Len(TextsIn(lines, 1)))
               = TextsIn(lines, 1)]_vars_all

\* C23 witness: the three lines 2, 4, 5 are selected, all three are in
\* binary after Alt+Left, and the pass after it has written 10, 100, 101
C23_Witness ==
  /\ Len(lines) = 3
  /\ is_range
  /\ CoveredRows = {0, 1, 2}
  /\ \A i \in 1..3 : lines[i].result_format = "Bin"
  /\ last_pass.valid
  /\ result_buffer = <<"1", "0", "1", "0", "0", "1", "0", "1">>

\* ------------------------------------------------------------------------
\* Matrix editing
\* ------------------------------------------------------------------------
Editing == matrix_editing # <<>>

\* a step that ends the matrix edit
EditEnds == matrix_editing # <<>> /\ matrix_editing' = <<>>

\* the cell strings as the edit has them, the cell being edited included
CellsNow ==
  [k \in 1..Len(mat_edit.cell_strings) |->
     IF k = mat_edit.current_cell.row * mat_edit.col_count
              + mat_edit.current_cell.column + 1
     THEN mat_edit.editor_content
     ELSE mat_edit.cell_strings[k]]

\* the cells c.. of row r, joined by ","
RECURSIVE RowText(_, _, _, _)
RowText(cells, col_count, r, c) ==
  IF c >= col_count THEN <<>>
  ELSE (IF c > 0 THEN <<",">> ELSE <<>>)
         \o cells[r * col_count + c + 1] \o RowText(cells, col_count, r, c + 1)

\* the rows r.., joined by ";"
RECURSIVE RowsText(_, _, _, _)
RowsText(cells, row_count, col_count, r) ==
  IF r >= row_count THEN <<>>
  ELSE (IF r > 0 THEN <<";">> ELSE <<>>)
         \o RowText(cells, col_count, r, 0)
         \o RowsText(cells, row_count, col_count, r + 1)

\* the literal of the matrix being edited
LiteralNow ==
  <<"[">> \o RowsText(CellsNow, mat_edit.row_count, mat_edit.col_count, 0)
    \o <<"]">>

\* the text of the row of the matrix being edited: before the literal, the
\* literal, after it
EditedRowText == lines[mat_edit.row_index + 1].text
TextBefore == SubSeq(EditedRowText, 1, mat_edit.start_text_index)
TextAfter ==
  SubSeq(EditedRowText, mat_edit.end_text_index + 1, Len(EditedRowText))

InLastColumn == mat_edit.current_cell.column = mat_edit.col_count - 1
InLastRow == mat_edit.current_cell.row = mat_edit.row_count - 1
CellCursorAtEnd == mat_edit.editor_column = Len(mat_edit.editor_content)

\* the position right after the "]" of the literal the edit commits
AfterCommittedLiteral ==
  Pos(mat_edit.row_index, mat_edit.start_text_index + Len(LiteralNow))

\* C25: when the matrix edit ends by Enter, by Esc, by Tab in the last cell
\* or by Right at the end of a cell of the last column, the main cursor is
\* right after the "]" of the committed literal, whatever was typed into
\* the cells.
C25_CursorAfterCommittedMatrix ==
  [][(/\ Editing
      /\ \/ handle_matrix_editor_input("Enter")
         \/ handle_matrix_editor_input("Esc")
         \/ InLastColumn /\ InLastRow /\ handle_matrix_editor_input("Tab")
         \/ InLastColumn /\ CellCursorAtEnd
              /\ handle_matrix_editor_input("Right"))
       => cursor' = AfterCommittedLiteral]_vars_all

\* the Tab presses that end the edit from the cell being edited:
\* R * C - (r * C + c)
TabsLeftOf(m) ==
  m.row_count * m.col_count
    - (m.current_cell.row * m.col_count + m.current_cell.column)

\* C26: while a matrix is edited, Tab in the last cell ends the edit and
\* Tab in any other cell moves to the next cell in row-major order (the next
\* column, from the last column the first column of the next row) with the
\* cell cursor at column 0 and the edit going on; every such Tab lowers
\* R * C - (r * C + c) by one and the edit ends by Tab exactly when that
\* number is 1, so that many presses of Tab end the edit.
C26_TabWalksRowMajor ==
  [][(Editing /\ handle_matrix_editor_input("Tab")) =>
       LET cell == mat_edit.current_cell IN
       /\ TabsLeftOf(mat_edit) \in 1..(mat_edit.row_count * mat_edit.col_count)
       /\ IF TabsLeftOf(mat_edit) = 1
          THEN matrix_editing' = <<>>
          ELSE /\ matrix_editing' # <<>>
               /\ TabsLeftOf(matrix_editing'[1]) = TabsLeftOf(mat_edit) - 1
               /\ matrix_editing'[1].current_cell =
                    IF cell.column < mat_edit.col_count - 1
                    THEN Pos(cell.row, cell.column + 1)
                    ELSE Pos(cell.row + 1, 0)
               /\ matrix_editing'[1].editor_column = 0
               /\ matrix_editing'[1].row_count = mat_edit.row_count
               /\ matrix_editing'[1].col_count = mat_edit.col_count
               /\ UNCHANGED <<lines, cursor>>]_vars_all

\* C26 witness: Tab has moved from the last column of the first row to the
\* first column of the second row
C26_Witness ==
  /\ Editing
  /\ last_input = "Tab"
  /\ mat_edit.row_count = 2
  /\ mat_edit.col_count = 2
  /\ mat_edit.current_cell = Pos(1, 0)
  /\ mat_edit.editor_column = 0

\* a step that starts a matrix edit
EditStarts == matrix_editing = <<>> /\ matrix_editing' # <<>>

\* C27: a matrix edit starts only in the step that ends render's loop, with
\* no edit going on, the selection no range, and the cursor strictly inside
\* a matrix literal of its row (start_x < column < end_x).  The cell it
\* starts in follows the previous cursor position: in the row of the matrix
\* and right of its start, the last column of the first row with the cell
\* cursor at the end of the cell; else in that row, or in a row above, cell
\* (0, 0); in a row below, the first column of the last row; the cell
\* cursor is at column 0 in these three cases.
C27_EditStartsInRender ==
  [][EditStarts =>
       LET m == matrix_editing'[1]
           text == lines[cursor.row + 1].text
           literal == MatrixAt(text, m.start_text_index + 1)
           from_right == /\ prev_cursor_pos.row = m.row_index
                         /\ prev_cursor_pos.column > m.start_text_index
       IN
       /\ RenderReturns
       /\ ~is_range
       /\ m.row_index = cursor.row
       /\ m.start_text_index < cursor.column
       /\ cursor.column < m.end_text_index
       /\ literal.end = m.end_text_index
       /\ m.row_count = literal.row_count
       /\ m.col_count = literal.col_count
       /\ m.cell_strings = literal.cells
       /\ m.current_cell =
            IF from_right THEN Pos(0, m.col_count - 1)
            ELSE IF prev_cursor_pos.row <= m.row_index THEN Pos(0, 0)
            ELSE Pos(m.row_count - 1, 0)
       /\ m.editor_content =
            m.cell_strings[m.current_cell.row * m.col_count
                             + m.current_cell.column + 1]
       /\ m.editor_column =
            IF from_right THEN Len(m.editor_content) ELSE 0]_vars_all

\* C27 witness: render has started an edit with the cursor coming from the
\* row below the matrix, in the first column of the last row
C27_Witness ==
  /\ Editing
  /\ pc = "idle"
  /\ last_op = "render"
  /\ prev_cursor_pos.row > mat_edit.row_index
  /\ mat_edit.row_count = 2
  /\ mat_edit.current_cell = Pos(1, 0)
  /\ mat_edit.editor_column = 0

\* the previous cursor was in the row of the matrix, right of its start
C27_WitnessFromRight ==
  /\ Editing
  /\ pc = "idle"
  /\ last_op = "render"
  /\ prev_cursor_pos.row = mat_edit.row_index
  /\ prev_cursor_pos.column > mat_edit.start_text_index
  /\ mat_edit.current_cell = Pos(0, 1)
  /\ mat_edit.editor_column = 1

\* the text of a cell as the edit has it
CellText(r, c) == CellsNow[r * mat_edit.col_count + c + 1]

\* the edit goes on in cell (r, c) with the cell cursor at column
EditGoesOnAt(r, c, column) ==
  /\ matrix_editing' # <<>>
  /\ matrix_editing'[1].current_cell = Pos(r, c)
  /\ matrix_editing'[1].editor_content = CellText(r, c)
  /\ matrix_editing'[1].editor_column = column
  /\ UNCHANGED <<lines, cursor>>

\* C28: while a matrix is edited, Left, Right, Home and End never change
\* the current row.  Left at the start of a cell moves to the previous
\* column with the cell cursor at the end of that cell, Right at the end of
\* a cell to the next column with the cell cursor at 0, Home to the first
\* and End to the last column of the row; Left and Home in the first
\* column, Right and End in the last column end the edit, and Home and End
\* then move the main cursor to the start and the end of its line.
C28_HorizontalKeys ==
  [][Editing =>
       LET cell == mat_edit.current_cell
           last == mat_edit.col_count - 1
           horizontal == \E input \in {"Left", "Right", "Home", "End"} :
                           handle_matrix_editor_input(input)
       IN
       /\ (horizontal /\ matrix_editing' # <<>>) =>
            matrix_editing'[1].current_cell.row = cell.row
       /\ (handle_matrix_editor_input("Left") /\ mat_edit.editor_column = 0) =>
            IF cell.column > 0
            THEN EditGoesOnAt(cell.row, cell.column - 1,
                              Len(CellText(cell.row, cell.column - 1)))
            ELSE EditEnds
       /\ (handle_matrix_editor_input("Right") /\ CellCursorAtEnd) =>
            IF cell.column < last
            THEN EditGoesOnAt(cell.row, cell.column + 1, 0)
            ELSE EditEnds
       /\ handle_matrix_editor_input("Home") =>
            IF cell.column > 0
            THEN /\ matrix_editing' # <<>>
                 /\ matrix_editing'[1].current_cell = Pos(cell.row, 0)
                 /\ UNCHANGED <<lines, cursor>>
            ELSE EditEnds /\ cursor' = Pos(mat_edit.row_index, 0)
       /\ handle_matrix_editor_input("End") =>
            IF cell.column < last
            THEN /\ matrix_editing' # <<>>
                 /\ matrix_editing'[1].current_cell = Pos(cell.row, last)
                 /\ UNCHANGED <<lines, cursor>>
            ELSE /\ EditEnds
                 /\ cursor' = Pos(mat_edit.row_index,
                                  Len(lines'[mat_edit.row_index + 1].text))
    ]_vars_all

\* C28 witness: Left at the start of the cell in the second column has
\* moved the edit to the first column, the cell cursor is at the end of the
\* cell's text
C28_Witness ==
  /\ Editing
  /\ last_input = "Left"
  /\ mat_edit.current_cell.column = 0
  /\ mat_edit.col_count = 2
  /\ Len(mat_edit.editor_content) > 0
  /\ mat_edit.editor_column = Len(mat_edit.editor_content)

\* the cell cursor's distance from the end of the cell's text
ColsFromRight == Len(mat_edit.editor_content) - mat_edit.editor_column

\* C29: while a matrix is edited, Up moves to the cell above and Down to
\* the cell below in the same column, and the cell cursor keeps its distance
\* from the end of the text: new column = new_len - min(old_len -
\* old_column, new_len).  Up in the first row and Down in the last row end
\* the edit, and the main editor then moves the cursor, which the commit
\* left after the literal, by that key.
C29_VerticalKeys ==
  [][Editing =>
       LET cell == mat_edit.current_cell
           new_len(r) == Len(CellText(r, cell.column))
       IN
       /\ handle_matrix_editor_input("Up") =>
            IF cell.row > 0
            THEN EditGoesOnAt(cell.row - 1, cell.column,
                              new_len(cell.row - 1)
                                - Min(ColsFromRight, new_len(cell.row - 1)))
            ELSE /\ EditEnds
                 /\ cursor' = editor_move("Up", lines', AfterCommittedLiteral)
       /\ handle_matrix_editor_input("Down") =>
            IF cell.row < mat_edit.row_count - 1
            THEN EditGoesOnAt(cell.row + 1, cell.column,
                              new_len(cell.row + 1)
                                - Min(ColsFromRight, new_len(cell.row + 1)))
            ELSE /\ EditEnds
                 /\ cursor' = editor_move("Down", lines', AfterCommittedLiteral)
    ]_vars_all

\* C29 witness: Up has moved from a cell of the second row whose text has
\* two characters to the cell above whose text has one; the cell cursor is
\* at column 0
C29_Witness ==
  /\ Editing
  /\ last_input = "Up"
  /\ mat_edit.row_count = 2
  /\ mat_edit.current_cell.row = 0
  /\ Len(mat_edit.editor_content) = 1
  /\ Len(mat_edit.cell_strings[mat_edit.col_count
                                 + mat_edit.current_cell.column + 1]) = 2
  /\ mat_edit.editor_column = 0

\* ------------------------------------------------------------------------
\* Backspace and Del on editor objects
\* ------------------------------------------------------------------------
\* what render's loop has after the rows before r of the current document
RECURSIVE PassBefore(_)
PassBefore(r) ==
  IF r = 0
  THEN [bits |-> {}, vars |-> <<Var(SumName, Zero)>>, results |-> <<>>,
        sum_is_null |-> TRUE]
  ELSE LET before == PassBefore(r - 1)
           line_data == lines[r]
       IN IF IsTextLine(line_data.text)
          THEN [before EXCEPT
                  !.results = Append(@, None),
                  !.sum_is_null = text_line_sum_is_null(line_data.text, @)]
          ELSE EvaluateLine(before.bits, before.vars, r - 1, line_data,
                            before.results, before.sum_is_null)

\* the matrix literals and line references of row r as they stand in the
\* current document
ObjectsNow(r) ==
  IF IsTextLine(lines[r + 1].text) THEN <<>>
  ELSE TokenObjects(lines[r + 1].text, 1, PassBefore(r).vars, r)

RECURSIVE AllObjectsNow(_)
AllObjectsNow(r) ==
  IF r >= Min(Len(lines), MAX_LINE_COUNT) THEN <<>>
  ELSE ObjectsNow(r) \o AllObjectsNow(r + 1)

\* column c of the cursor's row is covered by an object of the document
CoveredNow(c) ==
  \E k \in 1..Len(ObjectsNow(cursor.row)) :
    RangeContains(ObjectsNow(cursor.row)[k].start_x,
                  ObjectsNow(cursor.row)[k].end_x, c)

\* the step removes the columns from..to of the cursor's row and nothing
\* else of the document
Removes(from, to) ==
  /\ Len(lines') = Len(lines)
  /\ \A i \in 1..Len(lines) :
       lines'[i].text =
         IF i = cursor.row + 1
         THEN SubSeq(lines[i].text, 1, from)
                \o SubSeq(lines[i].text, to + 1, Len(lines[i].text))
         ELSE lines[i].text

\* what the claim says of a Backspace or Del step
DeletesWholeObjects ==
  LET objs == ObjectsNow(cursor.row)
      text == lines[cursor.row + 1].text
  IN
  /\ handle_input_Key("Backspace") =>
       /\ \A k \in 1..Len(objs) :
            objs[k].end_x = cursor.column
              => Removes(objs[k].start_x, objs[k].end_x)
       /\ (cursor.column > 0 /\ ~CoveredNow(cursor.column - 1))
            => Removes(cursor.column - 1, cursor.column)
  /\ handle_input_Key("Del") =>
       /\ \A k \in 1..Len(objs) :
            objs[k].start_x = cursor.column
              => Removes(objs[k].start_x, objs[k].end_x)
       /\ (cursor.column < Len(text) /\ ~CoveredNow(cursor.column))
            => Removes(cursor.column, cursor.column + 1)

\* C30: with no range selected, in whatever state the inputs and passes
\* so far have left the app, Backspace with the cursor right after a matrix
\* literal or a line reference of the current document and Del with the
\* cursor on its first character delete the text of that object and nothing
\* else; where no object covers the position they delete one character.
C30_DeletesWholeObjects ==
  [][(matrix_editing = <<>> /\ ~is_range) => DeletesWholeObjects]_vars_all

\* the objects render registered are those of the current document
ObjectsFresh == editor_objects = AllObjectsNow(0)

\* the same when the pass that registered the objects saw the current text
DeletesWholeObjectsWhenFresh ==
  [][(matrix_editing = <<>> /\ ~is_range /\ ObjectsFresh)
       => DeletesWholeObjects]_vars_all

\* ------------------------------------------------------------------------
\* Left and Right at a line reference
\* ------------------------------------------------------------------------
\* the line references of row r as they stand in the current document
ReferencesNow(r) ==
  LET objs == ObjectsNow(r) IN
  {objs[k] : k \in {j \in 1..Len(objs) : objs[j].typ = "LineReference"}}

\* pos is strictly inside a line reference of the current document
InsideReference(pos) ==
  \E obj \in ReferencesNow(pos.row) :
    obj.start_x < pos.column /\ pos.column < obj.end_x

\* the step leaves the text alone and handle_input returns false
MovesOnly == lines' = lines /\ modified' = FALSE

\* what the claim says of a Left or Right step
JumpsOverReferences ==
  /\ handle_input_Key("Left") =>
       /\ \A obj \in ReferencesNow(cursor.row) :
            obj.end_x = cursor.column
              => cursor' = Pos(cursor.row, obj.start_x) /\ MovesOnly
       /\ lines' = lines => ~InsideReference(cursor')
  /\ handle_input_Key("Right") =>
       /\ \A obj \in ReferencesNow(cursor.row) :
            obj.start_x = cursor.column
              => cursor' = Pos(cursor.row, obj.end_x) /\ MovesOnly
       /\ lines' = lines => ~InsideReference(cursor')

\* C31: with no range selected, Left with the cursor directly after a line
\* reference of the document moves the cursor to the first column of the
\* reference and Right with the cursor on its first column moves it to the
\* column after the reference; both leave the text as it is and return
\* false, and neither leaves the cursor strictly inside a reference.
C31_ReferenceTraversedAsUnit ==
  [][(matrix_editing = <<>> /\ ~is_range) => JumpsOverReferences]_vars_all

\* the same when the pass that registered the objects saw the current text
JumpsOverReferencesWhenFresh ==
  [][(matrix_editing = <<>> /\ ~is_range /\ ObjectsFresh)
       => JumpsOverReferences]_vars_all

\* ------------------------------------------------------------------------
\* The main text while a matrix is edited
\* ------------------------------------------------------------------------
\* the text of the document, line by line
TextOf(data) == [i \in 1..Len(data) |-> data[i].text]

\* the step changes the text of the document
TextChanges == TextOf(lines') # TextOf(lines)

\* the step is a key handled by handle_matrix_editor_input that ends the
\* edit, which only end_matrix_editing does
CommitStep ==
  /\ EditEnds
  /\ \E input \in MatrixKeys : handle_matrix_editor_input(input)

\* the range recorded when the edit started holds a matrix literal
RecordedRangeHoldsLiteral ==
  /\ mat_edit.row_index < Len(lines)
  /\ MatrixAt(EditedRowText, mat_edit.start_text_index + 1).end
       = mat_edit.end_text_index

\* C32: while a matrix is edited the text of the document changes only in
\* the step that ends the edit through end_matrix_editing, whatever the
\* order of handle_input, alt_key_released, set_normalized_content and
\* render is; so when the edit is committed the row_index, start_text_index
\* and end_text_index recorded at its start delimit the matrix literal.
C32_TextChangesOnlyByCommit ==
  [][Editing => /\ TextChanges => CommitStep
                /\ EditEnds => RecordedRangeHoldsLiteral]_vars_all

\* ------------------------------------------------------------------------
\* The rule of the running sum
\* ------------------------------------------------------------------------
\* the sum accumulator after the visited line j (1-based)
SumAfter(j) == IF j < Len(sum_log) THEN sum_log[j + 1].sum ELSE Sum

\* the visited line j had a result and left in the accumulator what the
\* rule of the anonymous lines gives: the result when the sum was just
\* reset, else the sum plus the result
FollowsSumRule(j) ==
  SumAfter(j) = sum_update(sum_log[j].sum, sum_log[j].is_null, results[j])

\* the visited lines j and j + 1 are both `sum`
TwoSumLines(j) == lines[j].text = T_sum /\ lines[j + 1].text = T_sum

\* C33: every line with a result updates the running sum by the same rule,
\* be it an assignment, a line with a stable id or an anonymous line (the
\* result replaces the sum when the sum was just reset, else it is added);
\* a line `sum` adds its own value, so of two consecutive `sum` lines the
\* second reports twice what the first reports.
C33_OneSumRule ==
  InPass =>
    /\ Len(results) = row
    /\ \A j \in 1..row : results[j] # None => FollowsSumRule(j)
    /\ \A j \in 1..(row - 1) :
         (TwoSumLines(j) /\ results[j] # None)
           => results[j + 1] = add_op(results[j], results[j])

\* the same for the lines that do not assign to `sum`, and for two `sum`
\* lines of which the first does not come right after a reset of the sum by
\* a `--` line
OneSumRuleWithoutSumAssignment ==
  InPass =>
    /\ Len(results) = row
    /\ \A j \in 1..row :
         (results[j] # None /\ ~AssignsTo(lines[j].text, SumName))
           => FollowsSumRule(j)
    /\ \A j \in 1..(row - 1) :
         (TwoSumLines(j) /\ results[j] # None /\ ~sum_log[j].is_null)
           => results[j + 1] = add_op(results[j], results[j])
====
